---------------------------- MODULE Spec2Model ----------------------------
(***************************************************************************)
(* Verification model of the ATR mine-truck core (NayaraAM/atr_mina):      *)
(*   - BufferCircular<T>            include/BufferCircular.h               *)
(*   - the five task threads        src/Threads.cpp                        *)
(*   - the moving-average filter    Sensores.cpp                           *)
(* Each specification below fixes the part of the program it exercises and *)
(* leaves the other variables at their construction values.                *)
(***************************************************************************)
EXTENDS Integers, Sequences, FiniteSets, TLC

(***************************************************************************)
(* Model bounds.                                                           *)
(***************************************************************************)
MaxCap == 2
MaxItems == 4
BufCap == 1
MaxSamples == 2
MaxMsgs == 1
MaxNavCycles == 2
MaxOrdem == 3
MaxFeed == 3
MaxCmds == 2

(***************************************************************************)
(* BufferCircular<T> as a value: data_, cap_, head_, tail_, count_.        *)
(* The mutex makes every method body one atomic step, except that a        *)
(* condition-variable wait releases it while the caller is blocked.        *)
(***************************************************************************)
NoItem == 0

\* a constructor without the capacity test
BufferCircularUnchecked(cap, t0) ==
    [data_ |-> [i \in 0..(cap - 1) |-> t0],
     cap_ |-> cap, head_ |-> 0, tail_ |-> 0, count_ |-> 0]

\* explicit BufferCircular(size_t cap): the exception thrown for cap == 0 is
\* the value [exception |-> ...]; no buffer object exists then
BufferCircular(cap, t0) ==
    IF cap = 0 THEN [exception |-> "invalid_argument"]
    ELSE [data_ |-> [i \in 0..(cap - 1) |-> t0],
          cap_ |-> cap, head_ |-> 0, tail_ |-> 0, count_ |-> 0]

\* the constructor (or the expression) did not yield an object
Thrown(r) == "exception" \in DOMAIN r

\* the items held, oldest first: data_[tail_], data_[tail_+1], ...
Contents(b) ==
    [i \in 1..b.count_ |-> b.data_[(b.tail_ + i - 1) % b.cap_]]

size(b) == b.count_
capacity(b) == b.cap_
empty(b) == size(b) = 0

\* wait predicates of the two condition variables
NotFull(b) == b.count_ < b.cap_
NotEmpty(b) == b.count_ > 0

\* a push_force that leaves the read cursor alone when it overwrites
ForceStoreKeepTail(b, v) ==
    [b EXCEPT !.data_[b.head_] = v,
              !.head_ = (b.head_ + 1) % b.cap_,
              !.count_ = IF b.count_ < b.cap_ THEN b.count_ + 1 ELSE b.count_]

\* body of push_force after the lock is taken
ForceStore(b, v) ==
    [b EXCEPT !.data_[b.head_] = v,
              !.head_ = (b.head_ + 1) % b.cap_,
              !.count_ = IF b.count_ < b.cap_ THEN b.count_ + 1 ELSE b.count_,
              !.tail_ = IF b.count_ < b.cap_ THEN b.tail_ ELSE (b.tail_ + 1) % b.cap_]

\* body of push_wait / push_wait_for once the predicate count_ < cap_ holds
Store(b, v) ==
    [b EXCEPT !.data_[b.head_] = v,
              !.head_ = (b.head_ + 1) % b.cap_,
              !.count_ = b.count_ + 1]

\* a read at the start of data_ instead of at the read cursor
FrontAtZero(b) == b.data_[0]

\* the element try_pop / pop_wait / pop_wait_for / try_peek hand out
Front(b) == b.data_[b.tail_]

\* a removal that forgets to advance the read cursor
TakeNoAdvance(b) ==
    [b EXCEPT !.count_ = b.count_ - 1]

\* body of try_pop / pop_wait / pop_wait_for once count_ > 0
Take(b) ==
    [b EXCEPT !.tail_ = (b.tail_ + 1) % b.cap_,
              !.count_ = b.count_ - 1]

\* body of clear
Cleared(b) ==
    [b EXCEPT !.head_ = 0, !.tail_ = 0, !.count_ = 0]

(***************************************************************************)
(* Sequence helpers.                                                       *)
(***************************************************************************)
LastN(s, n) ==
    IF Len(s) <= n THEN s ELSE SubSeq(s, Len(s) - n + 1, Len(s))

(***************************************************************************)
(* Texts.  A std::string is a sequence of one-character strings, so that   *)
(* find(), tolower() and stoi() are computed as the code computes them.    *)
(* Positions are 1-based and 0 stands for std::string::npos.               *)
(***************************************************************************)
UpperChars == <<"A", "B", "C", "D", "E", "F", "G", "H", "I", "J", "K", "L", "M", "N", "O", "P", "Q", "R", "S", "T", "U", "V", "W", "X", "Y", "Z">>
LowerChars == <<"a", "b", "c", "d", "e", "f", "g", "h", "i", "j", "k", "l", "m", "n", "o", "p", "q", "r", "s", "t", "u", "v", "w", "x", "y", "z">>
DigitChars == <<"0", "1", "2", "3", "4", "5", "6", "7", "8", "9">>

\* std::tolower on one character
tolower(c) ==
    IF \E i \in 1..Len(UpperChars) : UpperChars[i] = c
    THEN LowerChars[CHOOSE i \in 1..Len(UpperChars) : UpperChars[i] = c]
    ELSE c

\* for (char &c : low) c = std::tolower(c);
ToLower(s) == [i \in 1..Len(s) |-> tolower(s[i])]

\* s.find(sub, from): first position >= from where sub occurs, else npos
Find(s, sub, from) ==
    LET hits == {i \in from..(Len(s) - Len(sub) + 1) :
                    SubSeq(s, i, i + Len(sub) - 1) = sub}
    IN IF hits = {} THEN 0 ELSE CHOOSE i \in hits : \A j \in hits : i <= j

\* s.find(sub) != std::string::npos
Contains(s, sub) == Find(s, sub, 1) # 0

isspace(c) == c = " "
isdigit(c) == \E i \in 1..Len(DigitChars) : DigitChars[i] = c
DigitValue(c) == (CHOOSE i \in 1..Len(DigitChars) : DigitChars[i] = c) - 1

RECURSIVE SkipSpaces(_, _)
SkipSpaces(s, i) ==
    IF i <= Len(s) /\ isspace(s[i]) THEN SkipSpaces(s, i + 1) ELSE i

RECURSIVE SkipDigits(_, _)
SkipDigits(s, i) ==
    IF i <= Len(s) /\ isdigit(s[i]) THEN SkipDigits(s, i + 1) ELSE i

\* value of the digit run s[i..j-1]
RECURSIVE DigitsValue(_, _, _)
DigitsValue(s, i, j) ==
    IF j <= i THEN 0 ELSE DigitsValue(s, i, j - 1) * 10 + DigitValue(s[j - 1])

\* static bool extract_int_arg(const std::string &s, const std::string &key, int &out)
\* returns [ok, out]
extract_int_arg(s, key) ==
    LET pos   == Find(s, key, 1)
        eq    == IF pos = 0 THEN 0 ELSE Find(s, <<"=">>, pos)
        colon == IF pos = 0 THEN 0 ELSE Find(s, <<":">>, pos)
        start0 == IF eq # 0 THEN eq + 1 ELSE IF colon # 0 THEN colon + 1 ELSE 0
        start == IF start0 = 0 THEN 0 ELSE SkipSpaces(s, start0)
        signed == start # 0 /\ start <= Len(s) /\ s[start] \in {"-", "+"}
        dig0  == IF signed THEN start + 1 ELSE start
        i     == IF start = 0 THEN 0 ELSE SkipDigits(s, dig0)
    IN IF pos = 0 \/ start0 = 0 \/ i = start \/ i = dig0
       THEN [ok |-> FALSE, out |-> 0]
       ELSE [ok |-> TRUE,
             out |-> IF signed /\ s[start] = "-"
                     THEN 0 - DigitsValue(s, dig0, i)
                     ELSE DigitsValue(s, dig0, i)]

(***************************************************************************)
(* Route (Route.h, Route.cpp).  A double is held in tenths, as an integer: *)
(* 15 is 1.5.  The texts and waypoints of the model carry at most one      *)
(* decimal digit, so that every value is exact in this scale.              *)
(***************************************************************************)
NL == "\n"

RECURSIVE Pow10(_)
Pow10(k) == IF k <= 0 THEN 1 ELSE 10 * Pow10(k - 1)

\* the decimal digits of a natural number
RECURSIVE Digits(_)
Digits(n) ==
    IF n < 10 THEN <<DigitChars[n + 1]>>
    ELSE Digits(n \div 10) \o <<DigitChars[(n % 10) + 1]>>

\* s without its trailing "0" characters
RECURSIVE StripZeros(_)
StripZeros(s) ==
    IF s # <<>> /\ s[Len(s)] = "0" THEN StripZeros(SubSeq(s, 1, Len(s) - 1)) ELSE s

\* std::getline until it fails: the lines of the content, terminators removed
RECURSIVE Lines(_)
Lines(s) ==
    IF s = <<>> THEN <<>>
    ELSE LET nl == Find(s, <<NL>>, 1)
         IN IF nl = 0 THEN <<s>>
            ELSE <<SubSeq(s, 1, nl - 1)>> \o Lines(SubSeq(s, nl + 1, Len(s)))

\* iss >> d for a double, reading from position i: leading whitespace, sign,
\* digits, fraction, exponent; returns [ok, val, next].  The four scans are
\* bound through one-element sets, so that each is made once.
ParseDouble(s, i) ==
    LET IsSign(p) == p <= Len(s) /\ s[p] \in {"-", "+"}
        \* position of the first integer digit, given the end of the whitespace
        IntAt(p0) == IF IsSign(p0) THEN p0 + 1 ELSE p0
        \* position of the first fraction digit, given the end of the integer
        FracAt(d1) == IF d1 <= Len(s) /\ s[d1] = "." THEN d1 + 1 ELSE d1
        \* position of the first exponent digit, given the end of the fraction
        ExpAt(f1) == IF f1 <= Len(s) /\ s[f1] \in {"e", "E"}
                     THEN (IF IsSign(f1 + 1) THEN f1 + 2 ELSE f1 + 1)
                     ELSE f1
        Result(p0, d1, f1, e1) ==
            LET nFrac == f1 - FracAt(d1)
                expOK == e1 > ExpAt(f1)
                ev == IF ~expOK THEN 0
                      ELSE IF s[ExpAt(f1) - 1] = "-"
                      THEN 0 - DigitsValue(s, ExpAt(f1), e1)
                      ELSE DigitsValue(s, ExpAt(f1), e1)
                m == DigitsValue(s, IntAt(p0), d1) * Pow10(nFrac)
                       + DigitsValue(s, FracAt(d1), f1)
                sh == ev + 1 - nFrac
                mag == IF sh >= 0 THEN m * Pow10(sh) ELSE m \div Pow10(0 - sh)
            IN IF (d1 - IntAt(p0)) + nFrac = 0
               THEN [ok |-> FALSE, val |-> 0, next |-> i]
               ELSE [ok |-> TRUE,
                     val |-> IF IsSign(p0) /\ s[p0] = "-" THEN 0 - mag ELSE mag,
                     next |-> IF expOK THEN e1 ELSE f1]
        FromFrac(p0, d1, f1) ==
            {Result(p0, d1, f1, e1) :
                e1 \in {IF ExpAt(f1) = f1 THEN f1 ELSE SkipDigits(s, ExpAt(f1))}}
        FromInt(p0, d1) ==
            UNION {FromFrac(p0, d1, f1) :
                     f1 \in {IF FracAt(d1) = d1 THEN d1 ELSE SkipDigits(s, FracAt(d1))}}
        FromStart(p0) ==
            UNION {FromInt(p0, d1) : d1 \in {SkipDigits(s, IntAt(p0))}}
    IN CHOOSE r \in UNION {FromStart(p0) : p0 \in {SkipSpaces(s, i)}} : TRUE

\* one line through  iss >> x >> y  and  iss >> s : no waypoint or one
\* (x, y and s are bound through one-element sets, each read being made once)
ParseLine(line) ==
    LET AfterY(x, y) ==
            LET s == IF y.ok THEN ParseDouble(line, y.next) ELSE y
            IN IF ~(x.ok /\ y.ok) THEN <<>>
               ELSE <<[x |-> x.val, y |-> y.val,
                       speed |-> IF s.ok THEN s.val ELSE 0]>>
        AfterX(x) ==
            CHOOSE r \in {AfterY(x, y) :
                            y \in {IF x.ok THEN ParseDouble(line, x.next) ELSE x}} : TRUE
    IN CHOOSE r \in {AfterX(x) : x \in {ParseDouble(line, 1)}} : TRUE

RECURSIVE ParseLines(_, _)
ParseLines(ls, checked) ==
    IF ls = <<>> THEN <<>>
    ELSE LET line == Head(ls)
             p == SkipSpaces(line, 1)
             skip == checked /\ (p = Len(line) + 1 \/ line[p] = "#")
         IN (IF skip THEN <<>> ELSE ParseLine(line)) \o ParseLines(Tail(ls), checked)

\* a load that forgets waypoints.clear()
loadFromStringAppends(waypoints, content) ==
    [ret |-> TRUE, waypoints |-> waypoints \o ParseLines(Lines(content), TRUE)]

\* bool Route::loadFromString(content), called on a route holding waypoints
loadFromString(waypoints, content) ==
    [ret |-> TRUE, waypoints |-> ParseLines(Lines(content), TRUE)]

\* bool Route::loadFromFile(path): file is [exists, content]
loadFromFile(waypoints, file) ==
    IF ~file.exists THEN [ret |-> FALSE, waypoints |-> waypoints]
    ELSE [ret |-> TRUE, waypoints |-> ParseLines(Lines(file.content), FALSE)]

\* fixed notation of a value that has no more than six significant digits
FormatExact(v) ==
    LET a == IF v < 0 THEN 0 - v ELSE v
    IN (IF v < 0 THEN <<"-">> ELSE <<>>) \o Digits(a \div 10)
         \o (IF a % 10 = 0 THEN <<>> ELSE <<".">> \o Digits(a % 10))

\* ofs << d for a double: six significant digits, fixed notation while the
\* decimal exponent is below 6 and scientific above, trailing zeros dropped
FormatDouble(v) ==
    LET a == IF v < 0 THEN 0 - v ELSE v
        n == Len(Digits(a))
        k == n - 6
        q == a \div Pow10(k)
        r == a % Pow10(k)
        up == 2 * r > Pow10(k) \/ (2 * r = Pow10(k) /\ q % 2 = 1)
        m0 == IF up THEN q + 1 ELSE q
        carry == m0 = Pow10(6)
        m == IF carry THEN Pow10(5) ELSE m0
        e == IF carry THEN n - 1 ELSE n - 2
        md == Digits(m)
        frac == StripZeros(SubSeq(md, 2, 6))
        body == IF n <= 6 THEN FormatExact(a)
                ELSE IF e < 6 THEN md
                ELSE <<md[1]>> \o (IF frac = <<>> THEN <<>> ELSE <<".">> \o frac)
                       \o <<"e", "+">> \o (IF e < 10 THEN <<"0">> ELSE <<>>) \o Digits(e)
    IN (IF v < 0 THEN <<"-">> ELSE <<>>) \o body

\* bool Route::saveToFile(path): the text written
RECURSIVE saveToFile(_)
saveToFile(waypoints) ==
    IF waypoints = <<>> THEN <<>>
    ELSE LET wp == Head(waypoints)
         IN FormatDouble(wp.x) \o <<" ">> \o FormatDouble(wp.y) \o <<" ">>
              \o FormatDouble(wp.speed) \o <<NL>> \o saveToFile(Tail(waypoints))


\* keywords of the command grammar
KW_c_man == <<"c", "_", "m", "a", "n">>
KW_man == <<"m", "a", "n">>
KW_c_automatico == <<"c", "_", "a", "u", "t", "o", "m", "a", "t", "i", "c", "o">>
KW_auto == <<"a", "u", "t", "o">>
KW_c_rearme == <<"c", "_", "r", "e", "a", "r", "m", "e">>
KW_rearme == <<"r", "e", "a", "r", "m", "e">>
KW_c_acelera == <<"c", "_", "a", "c", "e", "l", "e", "r", "a">>
KW_acelera == <<"a", "c", "e", "l", "e", "r", "a">>
KW_c_direita == <<"c", "_", "d", "i", "r", "e", "i", "t", "a">>
KW_direita == <<"d", "i", "r", "e", "i", "t", "a">>
KW_c_esquerda == <<"c", "_", "e", "s", "q", "u", "e", "r", "d", "a">>
KW_esquerda == <<"e", "s", "q", "u", "e", "r", "d", "a">>
KW_on == <<"o", "n">>
KW_true == <<"t", "r", "u", "e">>
KW_1 == <<"1">>
KW_0 == <<"0">>
KW_clear == <<"c", "l", "e", "a", "r">>
KW_false == <<"f", "a", "l", "s", "e">>
KW_eletrica == <<"e", "l", "e", "t", "r", "i", "c", "a">>
KW_hidraulica == <<"h", "i", "d", "r", "a", "u", "l", "i", "c", "a">>
KW_all == <<"a", "l", "l">>
KW_x == <<"x">>
KW_y == <<"y">>

\* payloads the operator interface sends on .../comandos
TXT_automatico_on == <<"c", "_", "a", "u", "t", "o", "m", "a", "t", "i", "c", "o", " ", "o", "n">>
TXT_REARME == <<"C", "_", "R", "E", "A", "R", "M", "E">>
\* further command texts
TXT_c_man == <<"c", "_", "m", "a", "n">>
TXT_c_man_c_automatico == <<"c", "_", "m", "a", "n", " ", "c", "_", "a", "u", "t", "o", "m", "a", "t", "i", "c", "o">>
\* toggle texts: on/true/1 tokens, none, and two keywords sharing one token
TXT_acelera_on == <<"c", "_", "a", "c", "e", "l", "e", "r", "a", " ", "o", "n">>
TXT_acelera_off == <<"c", "_", "a", "c", "e", "l", "e", "r", "a", " ", "o", "f", "f">>
TXT_direita_1 == <<"c", "_", "d", "i", "r", "e", "i", "t", "a", "=", "1">>
TXT_ESQUERDA_TRUE == <<"C", "_", "E", "S", "Q", "U", "E", "R", "D", "A", " ", "T", "R", "U", "E">>
TXT_esquerda == <<"e", "s", "q", "u", "e", "r", "d", "a">>
TXT_direita_off_acelera_on == <<"d", "i", "r", "e", "i", "t", "a", " ", "o", "f", "f", ",", " ", "a", "c", "e", "l", "e", "r", "a", " ", "o", "n">>

\* payloads on .../sim/defeito
TXT_eletrica_1 == <<"e", "l", "e", "t", "r", "i", "c", "a", "=", "1">>
TXT_eletrica_0 == <<"e", "l", "e", "t", "r", "i", "c", "a", "=", "0">>
TXT_hidraulica_false == <<"h", "i", "d", "r", "a", "u", "l", "i", "c", "a", "=", "f", "a", "l", "s", "e">>
TXT_HIDRAULICA == <<"H", "I", "D", "R", "A", "U", "L", "I", "C", "A">>
TXT_all == <<"a", "l", "l">>
TXT_all_clear == <<"a", "l", "l", " ", "c", "l", "e", "a", "r">>
TXT_all_false == <<"a", "l", "l", "=", "f", "a", "l", "s", "e">>
TXT_clear == <<"c", "l", "e", "a", "r">>
\* payloads on .../setpoints
TXT_sp_460_509 == <<"x", "=", "4", "6", "0", ",", "y", "=", "5", "0", "9">>
\* an on/off test that knows the token "on" only
IsOnWord(low) == Contains(low, KW_on)

\* the on/off test shared by the three toggles
IsOn(low) == Contains(low, KW_on) \/ Contains(low, KW_true) \/ Contains(low, KW_1)

HasRearme(pl) ==
    LET low == ToLower(pl) IN Contains(low, KW_c_rearme) \/ Contains(low, KW_rearme)

\* a decode that compares the text as received, without tolower
DecodeEstadosCaseSensitive(pl, est) ==
    LET e1 == IF Contains(pl, KW_c_man) \/ Contains(pl, KW_man)
              THEN [est EXCEPT !.e_automatico = FALSE] ELSE est
        e2 == IF Contains(pl, KW_c_automatico) \/ Contains(pl, KW_auto)
              THEN [e1 EXCEPT !.e_automatico = TRUE] ELSE e1
        e3 == IF Contains(pl, KW_c_rearme) \/ Contains(pl, KW_rearme)
              THEN [e2 EXCEPT !.e_defeito = FALSE] ELSE e2
    IN e3

\* the stores into EstadosCaminhao made while decoding one command text
DecodeEstados(pl, est) ==
    LET low == ToLower(pl)
        e1 == IF Contains(low, KW_c_man) \/ Contains(low, KW_man)
              THEN [est EXCEPT !.e_automatico = FALSE] ELSE est
        e2 == IF Contains(low, KW_c_automatico) \/ Contains(low, KW_auto)
              THEN [e1 EXCEPT !.e_automatico = TRUE] ELSE e1
        e3 == IF Contains(low, KW_c_rearme) \/ Contains(low, KW_rearme)
              THEN [e2 EXCEPT !.e_defeito = FALSE] ELSE e2
    IN e3

\* the stores into ComandosCaminhao made while decoding one command text
DecodeComandos(pl, cmd) ==
    LET low == ToLower(pl)
        c1 == IF Contains(low, KW_c_man) \/ Contains(low, KW_man)
              THEN [cmd EXCEPT !.c_man = TRUE] ELSE cmd
        c2 == IF Contains(low, KW_c_automatico) \/ Contains(low, KW_auto)
              THEN [c1 EXCEPT !.c_automatico = TRUE] ELSE c1
        c3 == IF Contains(low, KW_c_rearme) \/ Contains(low, KW_rearme)
              THEN [c2 EXCEPT !.c_rearme = TRUE] ELSE c2
        c4 == IF Contains(low, KW_c_acelera) \/ Contains(low, KW_acelera)
              THEN [c3 EXCEPT !.c_acelera = IsOn(low)] ELSE c3
        c5 == IF Contains(low, KW_c_direita) \/ Contains(low, KW_direita)
              THEN [c4 EXCEPT !.c_direita = IsOn(low)] ELSE c4
        c6 == IF Contains(low, KW_c_esquerda) \/ Contains(low, KW_esquerda)
              THEN [c5 EXCEPT !.c_esquerda = IsOn(low)] ELSE c5
    IN c6

(***************************************************************************)
(* SensorData and the moving-average filter (class Sensores).              *)
(***************************************************************************)
SensorData0 ==
    [timestamp_ms |-> 0, i_posicao_x |-> 0, i_posicao_y |-> 0, i_angulo_x |-> 0,
     i_temperatura |-> 0, i_falha_eletrica |-> FALSE, i_falha_hidraulica |-> FALSE]

\* C++ integer division truncates toward zero
TruncDiv(a, n) == IF a >= 0 THEN a \div n ELSE 0 - ((0 - a) \div n)

RECURSIVE SumX(_)
SumX(w) == IF w = <<>> THEN 0 ELSE Head(w).i_posicao_x + SumX(Tail(w))
RECURSIVE SumY(_)
SumY(w) == IF w = <<>> THEN 0 ELSE Head(w).i_posicao_y + SumY(Tail(w))
RECURSIVE SumAng(_)
SumAng(w) == IF w = <<>> THEN 0 ELSE Head(w).i_angulo_x + SumAng(Tail(w))
RECURSIVE SumTemp(_)
SumTemp(w) == IF w = <<>> THEN 0 ELSE Head(w).i_temperatura + SumTemp(Tail(w))

\* a constructor that keeps the order it is given
SensoresNoCoerce(ordem) == ordem

\* Sensores::Sensores(int ordem): ordem_ = (ordem <= 0 ? 1 : ordem)
Sensores(ordem) == IF ordem <= 0 THEN 1 ELSE ordem

\* a window that drops the newest sample instead of the oldest
JanelaAposPopBack(janela, ordem, raw) ==
    LET w == Append(janela, raw)
    IN IF Len(w) > ordem THEN SubSeq(w, 1, Len(w) - 1) ELSE w

\* janela_ after push_back(raw) and the pop_front that keeps it at ordem_
JanelaApos(janela, ordem, raw) ==
    LET w == Append(janela, raw)
    IN IF Len(w) > ordem THEN Tail(w) ELSE w

\* SensorData Sensores::filtrar(const SensorData& raw): the value returned
filtrar(janela, ordem, raw) ==
    LET w == JanelaApos(janela, ordem, raw)
        n == Len(w)
    IN [timestamp_ms |-> raw.timestamp_ms,
        i_posicao_x |-> TruncDiv(SumX(w), n),
        i_posicao_y |-> TruncDiv(SumY(w), n),
        i_angulo_x |-> TruncDiv(SumAng(w), n),
        i_temperatura |-> TruncDiv(SumTemp(w), n),
        i_falha_eletrica |-> raw.i_falha_eletrica,
        i_falha_hidraulica |-> raw.i_falha_hidraulica]

(***************************************************************************)
(* Fixed-point arithmetic of the navigation controller.  Angles are in     *)
(* millidegrees, distances and speeds in thousandths, the integrator and   *)
(* the controller output in millionths; the gains are the code's, scaled.  *)
(***************************************************************************)
Kp_ang_x10 == 11
Kp_v_x1000 == 1000
Ki_v_x1000 == 120
Ts_ms == 100
INT_MIN == -200
INT_MAX == 200
SeedFactor_x10 == 1
SpeedCap == 80
SpeedGain_x10 == 4
AcelStepUp == 6
AcelStepDown == 3
DirStep == 5
AcelMax == 100
DirMax == 180
TempAlerta == 95
TempDefeito == 120
SetpointInicial == 500
OrdemMediaMovel == 5
PeriodoMs == 50
TruckId == 1

Abs(x) == IF x < 0 THEN 0 - x ELSE x
Min(a, b) == IF a < b THEN a ELSE b
Max(a, b) == IF a > b THEN a ELSE b

\* std::round(n / d) for d > 0: halves go away from zero
RoundDiv(n, d) ==
    IF n >= 0 THEN (2 * n + d) \div (2 * d)
    ELSE 0 - ((2 * (0 - n) + d) \div (2 * d))

\* floor of the square root, by bisection
RECURSIVE SqrtIn(_, _, _)
SqrtIn(n, lo, hi) ==
    IF lo >= hi THEN lo
    ELSE LET mid == (lo + hi + 1) \div 2
         IN IF mid * mid <= n THEN SqrtIn(n, mid, hi) ELSE SqrtIn(n, lo, mid - 1)
ISqrt(n) == SqrtIn(n, 0, 46340)

\* std::hypot(dx, dy) in thousandths (|dx|, |dy| stay below 2000)
HypotMilli(dx, dy) ==
    LET h == ISqrt(dx * dx + dy * dy)
    IN IF h * h = dx * dx + dy * dy THEN 1000 * h
       ELSE ISqrt((dx * dx + dy * dy) * 100) * 100

\* atan2(dy, dx) * 180 / M_PI in millidegrees, for the directions the
\* sampled positions and setpoints span (axes, diagonals, the 9:40 slope)
Atan2Mdeg(dy, dx) ==
    CASE dx = 0 /\ dy = 0 -> 0
      [] dy = 0 /\ dx > 0 -> 0
      [] dy = 0 /\ dx < 0 -> 180000
      [] dx = 0 /\ dy > 0 -> 90000
      [] dx = 0 /\ dy < 0 -> -90000
      [] dx = dy /\ dx > 0 -> 45000
      [] dx = dy /\ dx < 0 -> -135000
      [] dx = 0 - dy /\ dx > 0 -> -45000
      [] dx = 0 - dy /\ dx < 0 -> 135000
      [] 9 * dx = -40 * dy /\ dx < 0 -> 167320
      [] 9 * dx = -40 * dy /\ dx > 0 -> -12680

\* auto wrap180 = [](double a) { while (a > 180) a -= 360; while (a <= -180) a += 360; }
RECURSIVE wrap180(_)
wrap180(a) ==
    IF a > 180000 THEN wrap180(a - 360000)
    ELSE IF a <= -180000 THEN wrap180(a + 360000)
    ELSE a

(***************************************************************************)
(* ControleDeNavegacao_thread: the three branches of one control cycle.    *)
(* n is the record of the thread's locals, atu the AtuadoresCaminhao       *)
(* values, cmd the ComandosCaminhao values.  Each returns the new locals,  *)
(* the new actuator values and the payload published on .../atuadores      *)
(* (the empty set when nothing is published).                              *)
(***************************************************************************)
Payload(acel, dir, auto, def) ==
    [o_acel |-> acel, o_dir |-> dir, e_automatico |-> auto, e_defeito |-> def]

\* speed estimate from two successive samples (numerical differentiation)
EstimateSpeed(n, have, sd) ==
    IF have /\ n.last_sd.timestamp_ms # 0 /\ sd.timestamp_ms # n.last_sd.timestamp_ms
    THEN IF sd.timestamp_ms < n.last_sd.timestamp_ms
         THEN 0   \* the unsigned difference wraps to about 2^64 ms
         ELSE (HypotMilli(sd.i_posicao_x - n.last_sd.i_posicao_x,
                          sd.i_posicao_y - n.last_sd.i_posicao_y) * 1000)
                  \div (sd.timestamp_ms - n.last_sd.timestamp_ms)
    ELSE n.estimated_speed

\* setpoint_x / setpoint_y after an optional message of .../setpoints
SetpointAfter(n, msgs) ==
    IF msgs = <<>> THEN <<n.setpoint_x, n.setpoint_y>>
    ELSE LET ex == extract_int_arg(Head(msgs), KW_x)
             ey == extract_int_arg(Head(msgs), KW_y)
         IN <<IF ex.ok THEN ex.out ELSE n.setpoint_x,
              IF ey.ok THEN ey.out ELSE n.setpoint_y>>

\* a faulted branch that also re-centres the steering
NavFaultedRecentre(n, atu) ==
    [nav |-> [n EXCEPT !.mode = "faulted", !.prev_mode = n.mode, !.seeded = FALSE],
     atu |-> [atu EXCEPT !.o_aceleracao = 0, !.o_direcao = 0],
     pub |-> {Payload(0, 0, n.is_auto, TRUE)}]

\* if (is_def) { ... continue; }
\* a faulted branch that leaves the throttle where it is
NavFaultedHolds(n, atu) ==
    [nav |-> [n EXCEPT !.mode = "faulted", !.prev_mode = n.mode, !.seeded = FALSE],
     atu |-> atu,
     pub |-> {Payload(atu.o_aceleracao, atu.o_direcao, n.is_auto, TRUE)}]

NavFaulted(n, atu) ==
    [nav |-> [n EXCEPT !.mode = "faulted", !.prev_mode = n.mode, !.seeded = FALSE],
     atu |-> [atu EXCEPT !.o_aceleracao = 0],
     pub |-> {Payload(0, atu.o_direcao, n.is_auto, TRUE)}]

\* a manual branch that lets the setpoint message win over the tracking
NavManualNoTrack(n, atu, cmd) ==
    LET acel == IF cmd.c_acelera THEN Min(AcelMax, atu.o_aceleracao + AcelStepUp)
                ELSE Max(0 - AcelMax, atu.o_aceleracao - AcelStepDown)
        d1 == IF cmd.c_direita THEN Max(0 - DirMax, atu.o_direcao - DirStep)
              ELSE atu.o_direcao
        dir == IF cmd.c_esquerda THEN Min(DirMax, d1 + DirStep) ELSE d1
    IN [nav |-> [n EXCEPT !.controller_enabled = FALSE,
                          !.setpoint_x = IF n.sp_msg THEN n.setpoint_x
                                         ELSE IF n.have_sd THEN n.sd.i_posicao_x
                                         ELSE IF n.last_sd.timestamp_ms # 0
                                              THEN n.last_sd.i_posicao_x ELSE n.setpoint_x,
                          !.setpoint_y = IF n.sp_msg THEN n.setpoint_y
                                         ELSE IF n.have_sd THEN n.sd.i_posicao_y
                                         ELSE IF n.last_sd.timestamp_ms # 0
                                              THEN n.last_sd.i_posicao_y ELSE n.setpoint_y,
                          !.mode = "manual", !.prev_mode = n.mode, !.seeded = FALSE],
        atu |-> [o_aceleracao |-> acel, o_direcao |-> dir],
        pub |-> {Payload(acel, dir, FALSE, FALSE)}]

\* a manual branch that treats turn-left as the alternative of turn-right
NavManualElseIf(n, atu, cmd) ==
    LET acel == IF cmd.c_acelera THEN Min(AcelMax, atu.o_aceleracao + AcelStepUp)
                ELSE Max(0 - AcelMax, atu.o_aceleracao - AcelStepDown)
        dir == IF cmd.c_direita THEN Max(0 - DirMax, atu.o_direcao - DirStep)
               ELSE IF cmd.c_esquerda THEN Min(DirMax, atu.o_direcao + DirStep)
               ELSE atu.o_direcao
    IN [nav |-> [n EXCEPT !.controller_enabled = FALSE,
                          !.setpoint_x = IF n.have_sd THEN n.sd.i_posicao_x
                                         ELSE IF n.last_sd.timestamp_ms # 0
                                              THEN n.last_sd.i_posicao_x ELSE n.setpoint_x,
                          !.setpoint_y = IF n.have_sd THEN n.sd.i_posicao_y
                                         ELSE IF n.last_sd.timestamp_ms # 0
                                              THEN n.last_sd.i_posicao_y ELSE n.setpoint_y,
                          !.mode = "manual", !.prev_mode = n.mode, !.seeded = FALSE],
        atu |-> [o_aceleracao |-> acel, o_direcao |-> dir],
        pub |-> {Payload(acel, dir, FALSE, FALSE)}]


\* if (!is_auto) { ... continue; }
NavManual(n, atu, cmd) ==
    LET acel == IF cmd.c_acelera THEN Min(AcelMax, atu.o_aceleracao + AcelStepUp)
                ELSE Max(0 - AcelMax, atu.o_aceleracao - AcelStepDown)
        d1 == IF cmd.c_direita THEN Max(0 - DirMax, atu.o_direcao - DirStep)
              ELSE atu.o_direcao
        dir == IF cmd.c_esquerda THEN Min(DirMax, d1 + DirStep) ELSE d1
    IN [nav |-> [n EXCEPT !.controller_enabled = FALSE,
                          !.setpoint_x = IF n.have_sd THEN n.sd.i_posicao_x
                                         ELSE IF n.last_sd.timestamp_ms # 0
                                              THEN n.last_sd.i_posicao_x ELSE n.setpoint_x,
                          !.setpoint_y = IF n.have_sd THEN n.sd.i_posicao_y
                                         ELSE IF n.last_sd.timestamp_ms # 0
                                              THEN n.last_sd.i_posicao_y ELSE n.setpoint_y,
                          !.mode = "manual", !.prev_mode = n.mode, !.seeded = FALSE],
        atu |-> [o_aceleracao |-> acel, o_direcao |-> dir],
        pub |-> {Payload(acel, dir, FALSE, FALSE)}]

\* integrador_v after the bumpless seed, in millionths
SeedIntegrador(n, atu) ==
    IF n.controller_enabled THEN n.integrador_v
    ELSE atu.o_aceleracao * SeedFactor_x10 * 100000

\* the steering command of the P controller
OutDir(sd, dx, dy) ==
    LET cur == sd.i_angulo_x
        far == dx * dx + dy * dy > 1
        a0 == Atan2Mdeg(dy, dx)
        desired == IF far THEN (IF a0 < 0 THEN a0 + 360000 ELSE a0) ELSE cur * 1000
        ang_err == wrap180(desired - cur * 1000)
        o0 == cur + RoundDiv(Kp_ang_x10 * ang_err, 10000)
        o1 == IF o0 > 180 THEN o0 - 360 ELSE o0
    IN IF o1 < -180 THEN o1 + 360 ELSE o1

\* desired_speed - current_speed, in thousandths
ErrorV(n, dx, dy) ==
    Min(SpeedCap * 1000, (HypotMilli(dx, dy) * SpeedGain_x10) \div 10) - n.estimated_speed

\* an integrator update without the anti-windup limits
IntegradorSemLimite(integ, ev) ==
    integ + ev * ((Ki_v_x1000 * Ts_ms) \div 1000)


\* integrador_v += error_v * Ki_v * Ts_sec, clamped to [INT_MIN, INT_MAX]
IntegradorApos(integ, ev) ==
    LET i1 == integ + ev * ((Ki_v_x1000 * Ts_ms) \div 1000)
    IN Max(INT_MIN * 1000000, Min(INT_MAX * 1000000, i1))

\* a throttle command without the final clamp
OutAccUnclamped(ev, integ) ==
    RoundDiv(ev * Kp_v_x1000 + integ, 1000000)

\* out_acc_i: round(Kp_v * error_v + integrador_v) clamped to [-100, 100]
OutAcc(ev, integ) ==
    LET o == RoundDiv(ev * Kp_v_x1000 + integ, 1000000)
    IN Max(0 - AcelMax, Min(AcelMax, o))

\* an Automatic branch that publishes the held outputs when no sample arrived
NavAutoHoldPublishes(n, atu) ==
    LET seed == SeedIntegrador(n, atu)
        dx == n.setpoint_x - n.sd.i_posicao_x
        dy == n.setpoint_y - n.sd.i_posicao_y
        ev == ErrorV(n, dx, dy)
        integ == IntegradorApos(seed, ev)
        acc == OutAcc(ev, integ)
        dir == OutDir(n.sd, dx, dy)
    IN IF ~n.have_sd
       THEN [nav |-> [n EXCEPT !.integrador_v = seed, !.controller_enabled = TRUE,
                               !.mode = "hold", !.prev_mode = n.mode,
                               !.seeded = ~n.controller_enabled],
             atu |-> atu,
             pub |-> {Payload(atu.o_aceleracao, atu.o_direcao, TRUE, FALSE)}]
       ELSE [nav |-> [n EXCEPT !.integrador_v = integ, !.controller_enabled = TRUE,
                               !.mode = "auto", !.prev_mode = n.mode,
                               !.seeded = ~n.controller_enabled,
                               !.dx = dx, !.dy = dy, !.error_v = ev,
                               !.acel_antes = atu.o_aceleracao],
             atu |-> [o_aceleracao |-> acc, o_direcao |-> dir],
             pub |-> {Payload(acc, dir, TRUE, FALSE)}]


\* the Automatic branch
NavAuto(n, atu) ==
    LET seed == SeedIntegrador(n, atu)
        dx == n.setpoint_x - n.sd.i_posicao_x
        dy == n.setpoint_y - n.sd.i_posicao_y
        ev == ErrorV(n, dx, dy)
        integ == IntegradorApos(seed, ev)
        acc == OutAcc(ev, integ)
        dir == OutDir(n.sd, dx, dy)
    IN IF ~n.have_sd
       THEN [nav |-> [n EXCEPT !.integrador_v = seed, !.controller_enabled = TRUE,
                               !.mode = "hold", !.prev_mode = n.mode,
                               !.seeded = ~n.controller_enabled],
             atu |-> atu,
             pub |-> {}]
       ELSE [nav |-> [n EXCEPT !.integrador_v = integ, !.controller_enabled = TRUE,
                               !.mode = "auto", !.prev_mode = n.mode,
                               !.seeded = ~n.controller_enabled,
                               !.dx = dx, !.dy = dy, !.error_v = ev,
                               !.acel_antes = atu.o_aceleracao],
             atu |-> [o_aceleracao |-> acc, o_direcao |-> dir],
             pub |-> {Payload(acc, dir, TRUE, FALSE)}]

\* the locals of ControleDeNavegacao_thread before its loop
NavLocals0 ==
    [setpoint_x |-> SetpointInicial, setpoint_y |-> SetpointInicial,
     integrador_v |-> 0, controller_enabled |-> FALSE,
     last_sd |-> SensorData0, estimated_speed |-> 0, prev_auto |-> FALSE,
     have_sd |-> FALSE, sd |-> SensorData0, is_auto |-> FALSE, is_def |-> FALSE,
     \* history: the sample before last_sd, whether this cycle consumed a
     \* setpoint message, the branch of the last two cycles, the last errors
     prev_sd |-> SensorData0, sp_msg |-> FALSE, mode |-> "none", prev_mode |-> "none",
     seeded |-> FALSE, dx |-> 0, dy |-> 0, error_v |-> 0, acel_antes |-> 0]

(***************************************************************************)
(* MonitoramentoDeFalhas_thread: the status stores for one sample.         *)
(***************************************************************************)
\* a monitor that recomputes e_defeito from every sample
FalhasEstadosRecompute(sd, est) ==
    [est EXCEPT !.e_alerta_temperatura = sd.i_temperatura > TempAlerta,
                !.e_defeito = \/ sd.i_temperatura > TempDefeito
                              \/ sd.i_falha_eletrica \/ sd.i_falha_hidraulica]

\* a monitor that latches the temperature alert as it latches the defect
FalhasEstadosLatchAlert(sd, est) ==
    LET temp_alert == sd.i_temperatura > TempAlerta
        temp_defect == sd.i_temperatura > TempDefeito
    IN [est EXCEPT !.e_alerta_temperatura = temp_alert \/ est.e_alerta_temperatura,
                   !.e_defeito = IF temp_defect \/ sd.i_falha_eletrica \/ sd.i_falha_hidraulica
                                 THEN TRUE ELSE est.e_defeito]

FalhasEstados(sd, est) ==
    LET temp_alert == sd.i_temperatura > TempAlerta
        temp_defect == sd.i_temperatura > TempDefeito
    IN [est EXCEPT !.e_alerta_temperatura = temp_alert,
                   !.e_defeito = IF temp_defect \/ sd.i_falha_eletrica \/ sd.i_falha_hidraulica
                                 THEN TRUE ELSE est.e_defeito]

\* (b ? 1 : 0)
Bit(b) == IF b THEN 1 ELSE 0

\* an event whose defect bit uses >= for the threshold
EventoPayloadDefectGE(sd) ==
    [temp |-> sd.i_temperatura,
     alert_temp |-> Bit(sd.i_temperatura > TempAlerta),
     defect_temp |-> Bit(sd.i_temperatura >= TempDefeito),
     falha_ele |-> Bit(sd.i_falha_eletrica),
     falha_hid |-> Bit(sd.i_falha_hidraulica),
     ts |-> sd.timestamp_ms]

\* the JSON object published on /mina/caminhoes/<id>/eventos
EventoPayload(sd) ==
    [temp |-> sd.i_temperatura,
     alert_temp |-> Bit(sd.i_temperatura > TempAlerta),
     defect_temp |-> Bit(sd.i_temperatura > TempDefeito),
     falha_ele |-> Bit(sd.i_falha_eletrica),
     falha_hid |-> Bit(sd.i_falha_hidraulica),
     ts |-> sd.timestamp_ms]

\* the JSON object published on /mina/gerente/falhas
GerentePayload(sd) ==
    [truck_id |-> TruckId,
     temp |-> sd.i_temperatura,
     alert_temp |-> Bit(sd.i_temperatura > TempAlerta),
     defect_temp |-> Bit(sd.i_temperatura > TempDefeito),
     falha_ele |-> Bit(sd.i_falha_eletrica),
     falha_hid |-> Bit(sd.i_falha_hidraulica),
     ts |-> sd.timestamp_ms]

\* the flags of the raw sample after an optional .../sim/defeito message
InjectFlags(msgs, raw) ==
    IF msgs = <<>> THEN raw
    ELSE LET low == ToLower(Head(msgs))
             off == Contains(low, KW_0) \/ Contains(low, KW_clear) \/ Contains(low, KW_false)
             off_all == Contains(low, KW_0) \/ Contains(low, KW_clear)
             r1 == IF Contains(low, KW_eletrica)
                   THEN [raw EXCEPT !.i_falha_eletrica = ~off] ELSE raw
             r2 == IF Contains(low, KW_hidraulica)
                   THEN [r1 EXCEPT !.i_falha_hidraulica = ~off] ELSE r1
         IN IF Contains(low, KW_all)
            THEN [r2 EXCEPT !.i_falha_eletrica = ~off_all, !.i_falha_hidraulica = ~off_all]
            ELSE r2

(***************************************************************************)
(* State.                                                                  *)
(***************************************************************************)
VARIABLES
    \* ---- one BufferCircular<int> used by client threads ----
    ring,       \* the buffer object
    tpc,        \* per thread: "idle", "waiting" (blocked in a cv), "woken"
    top,        \* per thread: the method it is inside
    targ,       \* per thread: the item a blocked push carries
    nextItem,   \* next fresh item value
    pushedLog,  \* items whose push completed, in completion order
    poppedLog,  \* items handed to consumers, in delivery order
    phase,      \* history of the calls made so far: "new", "force", "drain",
                \* "pushed_empty", "popped_after", "cleared", "mixed"
    capArg,     \* the capacity the constructor was called with
    lastRead,   \* the last call of a const method: its name, result and out
    \* ---- one moving-average filter (class Sensores) ----
    ordemArg,   \* the order the constructor was called with
    filtro,     \* the filter object: ordem_, janela_
    rawLog,     \* history: raw samples passed to filtrar, in call order
    outLog,     \* history: the samples filtrar returned
    \* ---- the truck process (main.cpp, Threads.cpp) ----
    stop_flag,  \* std::atomic<bool> stop_flag
    BUF,        \* BUF_NAV, BUF_LOGIC, BUF_FALHAS, BUF_COLETOR, BUF_CMDS
    queues_,    \* MqttClient::queues_, per inbound topic
    ESTADO,     \* EstadosCaminhao
    COMANDO,    \* ComandosCaminhao
    ATUADOR,    \* AtuadoresCaminhao
    pub,        \* last payload published per outbound topic
    clock,      \* now_ms() as the sensor task reads it
    pcS, sens,  \* TratamentoSensores_thread: position and locals
    pcL, l_pl,  \* LogicaDeComando_thread: position and the polled command
    pcF,        \* MonitoramentoDeFalhas_thread: position
    pcN, nav,   \* ControleDeNavegacao_thread: position and locals
    pcC, c_pl,  \* ColetorDeDados_thread: position and the polled command
    navCycles,  \* history: control cycles started
    produced,   \* history: filtered samples the sensor task published
    received,   \* history: samples each consumer popped from its channel
    arrived,    \* history: messages delivered by the bus so far
    events,     \* history: payloads the fault monitor published, per scope
    \* ---- one Route object and the file it is saved to ----
    route,      \* Route::waypoints
    routeFile,  \* the route file: whether it exists, and its text
    routeRet,   \* what the last load or save returned: "none", "true", "false"
    routeOp,    \* history: the last method called on the route
    routeArg,   \* history: the text given to the last loadFromString
    savedRoute, \* history: the waypoints the file was written from
    \* ---- MqttClient's inbound queues, step by step ----
    mqtt_queues,\* MqttClient::queues_ as a map: only the topics seen so far
    q_mtx_,     \* MqttClient::q_mtx_: "free" or the thread that holds it
    mpc,        \* per thread inside MqttClient: position
    mloc,       \* per thread inside MqttClient: topic and message in hand
    mlog,       \* history: messages arrived, and what each poll returned
    \* ---- main() and the route manager thread (main.cpp) ----
    pcM,        \* main: position
    pcR,        \* th_route_mgr: position
    joined      \* threads main has joined so far

ringVars == <<ring, tpc, top, targ, nextItem, pushedLog, poppedLog, phase,
              capArg, lastRead>>

filterVars == <<ordemArg, filtro, rawLog, outLog>>

sysVars == <<stop_flag, BUF, queues_, ESTADO, COMANDO, ATUADOR, pub, clock,
             pcS, sens, pcL, l_pl, pcF, pcN, nav, pcC, c_pl,
             navCycles, produced, received, arrived, events>>

routeVars == <<route, routeFile, routeRet, routeOp, routeArg, savedRoute>>

mqttVars == <<mqtt_queues, q_mtx_, mpc, mloc, mlog>>

mainVars == <<pcM, pcR, joined>>

extVars == <<mqttVars, mainVars>>

vars == <<ringVars, filterVars, routeVars, sysVars, extVars>>

Producers == {"p1", "p2"}
Consumers == {"c1", "c2"}
Threads == Producers \cup Consumers

PopOps == {"pop_wait", "pop_wait_for"}
PushOps == {"push_wait", "push_wait_for"}

\* threads blocked on cv_ (consumers) and on not_full_cv_ (producers)
CvWaiters == {t \in Threads : tpc[t] = "waiting" /\ top[t] \in PopOps}
NotFullWaiters == {t \in Threads : tpc[t] = "waiting" /\ top[t] \in PushOps}

\* a notify_one that reaches nobody
NotifyNobody(pcs, waiters) == {pcs}

\* notify_one: wakes one waiter of the condition variable, if there is one
NotifyOne(pcs, waiters) ==
    IF waiters = {} THEN {pcs}
    ELSE {[pcs EXCEPT ![w] = "woken"] : w \in waiters}

\* notify_all: wakes every waiter
NotifyAll(pcs, waiters) ==
    [t \in DOMAIN pcs |-> IF t \in waiters THEN "woken" ELSE pcs[t]]

(***************************************************************************)
(* The truck process.                                                      *)
(***************************************************************************)
SampleChannels == {"nav", "logic", "falhas", "coletor"}
Channels == SampleChannels \cup {"cmds"}
Topics == {"comandos", "setpoints", "defeito"}

\* the state main() builds before it starts the threads
InitSysCap(cmdsCap) ==
    /\ stop_flag = FALSE
    /\ BUF = [ch \in Channels |->
              IF ch = "cmds" THEN BufferCircular(cmdsCap, <<>>)
                             ELSE BufferCircular(BufCap, SensorData0)]
    /\ queues_ = [tp \in Topics |-> <<>>]
    /\ ESTADO = [e_automatico |-> FALSE, e_defeito |-> FALSE,
                 e_alerta_temperatura |-> FALSE]
    /\ COMANDO = [c_automatico |-> FALSE, c_man |-> FALSE, c_rearme |-> FALSE,
                  c_acelera |-> FALSE, c_direita |-> FALSE, c_esquerda |-> FALSE]
    /\ ATUADOR = [o_aceleracao |-> 0, o_direcao |-> 0]
    /\ pub = [atuadores |-> {}, setpoints |-> {}, eventos |-> {}, logs |-> {}]
    /\ clock = PeriodoMs
    /\ pcS = "check"
    /\ sens = [filtrado |-> SensorData0, last_published_ts |-> 0, janela_ |-> <<>>]
    /\ pcL = "check" /\ l_pl = <<>>
    /\ pcF = "check"
    /\ pcN = "check" /\ nav = NavLocals0
    /\ pcC = "check" /\ c_pl = <<>>
    /\ navCycles = 0
    /\ produced = <<>>
    /\ received = [ch \in SampleChannels |-> <<>>]
    /\ arrived = 0
    /\ events = [truck |-> <<>>, fleet |-> <<>>]

InitSys == InitSysCap(BufCap)

InitRing ==
    /\ capArg \in 1..MaxCap
    /\ ring = BufferCircular(capArg, NoItem)
    /\ tpc = [t \in Threads |-> "idle"]
    /\ top = [t \in Threads |-> "none"]
    /\ targ = [t \in Threads |-> NoItem]
    /\ nextItem = 1
    /\ pushedLog = <<>>
    /\ poppedLog = <<>>
    /\ phase = "new"
    /\ lastRead = [op |-> "none", ret |-> 0, out |-> NoItem]

\* the insertion at the end of push_wait / push_wait_for, with its notify
CompletePush(t, v, pcs) ==
    /\ ring' = Store(ring, v)
    /\ pushedLog' = Append(pushedLog, v)
    /\ \E woke \in NotifyOne(pcs, CvWaiters \ {t}) :
          tpc' = [woke EXCEPT ![t] = "idle"]
    /\ top' = [top EXCEPT ![t] = "none"]
    /\ targ' = [targ EXCEPT ![t] = NoItem]
    /\ UNCHANGED poppedLog

\* the removal at the end of try_pop / pop_wait / pop_wait_for, with its notify
CompletePop(t, pcs) ==
    /\ ring' = Take(ring)
    /\ poppedLog' = Append(poppedLog, Front(ring))
    /\ \E woke \in NotifyOne(pcs, NotFullWaiters \ {t}) :
          tpc' = [woke EXCEPT ![t] = "idle"]
    /\ top' = [top EXCEPT ![t] = "none"]
    /\ UNCHANGED <<pushedLog, targ>>

\* the caller blocks: the predicate was false when it took the lock
Block(t, op, v) ==
    /\ tpc' = [tpc EXCEPT ![t] = "waiting"]
    /\ top' = [top EXCEPT ![t] = op]
    /\ targ' = [targ EXCEPT ![t] = v]
    /\ UNCHANGED <<ring, pushedLog, poppedLog>>

\* void push_wait(const T& v)
push_wait(t) ==
    /\ UNCHANGED <<sysVars, filterVars, routeVars, extVars, lastRead>>
    /\ UNCHANGED capArg
    /\ t \in Producers /\ tpc[t] = "idle" /\ nextItem <= MaxItems
    /\ nextItem' = nextItem + 1
    /\ phase' = IF empty(ring) THEN "pushed_empty" ELSE "mixed"
    /\ IF NotFull(ring) THEN CompletePush(t, nextItem, tpc)
       ELSE Block(t, "push_wait", nextItem)

\* bool push_wait_for(const T& v, timeout)
push_wait_for(t) ==
    /\ UNCHANGED <<sysVars, filterVars, routeVars, extVars, lastRead>>
    /\ UNCHANGED capArg
    /\ t \in Producers /\ tpc[t] = "idle" /\ nextItem <= MaxItems
    /\ nextItem' = nextItem + 1
    /\ phase' = "mixed"
    /\ IF NotFull(ring) THEN CompletePush(t, nextItem, tpc)
       ELSE Block(t, "push_wait_for", nextItem)

\* bool try_pop(T& out)
try_pop(t) ==
    /\ UNCHANGED <<sysVars, filterVars, routeVars, extVars, lastRead>>
    /\ UNCHANGED capArg
    /\ t \in Consumers /\ tpc[t] = "idle"
    /\ phase' = IF ring.count_ = 0 THEN phase
                 ELSE IF phase \in {"force", "drain"} THEN "drain" ELSE "mixed"
    /\ IF ring.count_ = 0
       THEN UNCHANGED <<ring, tpc, top, targ, pushedLog, poppedLog>>
       ELSE CompletePop(t, tpc)
    /\ UNCHANGED nextItem

\* void pop_wait(T& out)
pop_wait(t) ==
    /\ UNCHANGED <<sysVars, filterVars, routeVars, extVars, lastRead>>
    /\ UNCHANGED capArg
    /\ t \in Consumers /\ tpc[t] = "idle"
    /\ phase' = IF phase = "pushed_empty" THEN "popped_after" ELSE "mixed"
    /\ IF NotEmpty(ring) THEN CompletePop(t, tpc)
       ELSE Block(t, "pop_wait", NoItem)
    /\ UNCHANGED nextItem

\* bool pop_wait_for(T& out, timeout)
pop_wait_for(t) ==
    /\ UNCHANGED <<sysVars, filterVars, routeVars, extVars, lastRead>>
    /\ UNCHANGED capArg
    /\ t \in Consumers /\ tpc[t] = "idle"
    /\ phase' = "mixed"
    /\ IF NotEmpty(ring) THEN CompletePop(t, tpc)
       ELSE Block(t, "pop_wait_for", NoItem)
    /\ UNCHANGED nextItem

\* a notified (or spuriously woken) waiter re-takes the lock and re-tests
\* its predicate: cv.wait(lk, pred) is  while (!pred()) wait(lk);
Resume(t) ==
    /\ UNCHANGED <<sysVars, filterVars, routeVars, extVars, lastRead>>
    /\ UNCHANGED capArg
    /\ tpc[t] = "woken"
    /\ IF top[t] \in PushOps
       THEN IF NotFull(ring) THEN CompletePush(t, targ[t], tpc)
            ELSE Block(t, top[t], targ[t])
       ELSE IF NotEmpty(ring) THEN CompletePop(t, tpc)
            ELSE Block(t, top[t], targ[t])
    /\ phase' = "mixed"
    /\ UNCHANGED nextItem

\* a timed push that overwrites the oldest item when its timeout expires
TimeoutForces(t) ==
    /\ UNCHANGED <<sysVars, filterVars, routeVars, extVars, lastRead>>
    /\ UNCHANGED capArg
    /\ tpc[t] = "waiting" /\ top[t] \in {"push_wait_for", "pop_wait_for"}
    /\ IF top[t] = "push_wait_for"
       THEN /\ ring' = ForceStore(ring, targ[t])
            /\ pushedLog' = Append(pushedLog, targ[t])
            /\ targ' = [targ EXCEPT ![t] = NoItem]
            /\ UNCHANGED poppedLog
       ELSE UNCHANGED <<ring, targ, pushedLog, poppedLog>>
    /\ tpc' = [tpc EXCEPT ![t] = "idle"]
    /\ top' = [top EXCEPT ![t] = "none"]
    /\ phase' = "mixed"
    /\ UNCHANGED nextItem

\* the timeout of wait_for(lk, timeout, pred) expires: it returns pred(),
\* evaluated with the lock held
Timeout(t) ==
    /\ UNCHANGED <<sysVars, filterVars, routeVars, extVars, lastRead>>
    /\ UNCHANGED capArg
    /\ tpc[t] = "waiting" /\ top[t] \in {"push_wait_for", "pop_wait_for"}
    /\ IF top[t] = "push_wait_for"
       THEN IF NotFull(ring) THEN CompletePush(t, targ[t], tpc)
            ELSE /\ tpc' = [tpc EXCEPT ![t] = "idle"]
                 /\ top' = [top EXCEPT ![t] = "none"]
                 /\ targ' = [targ EXCEPT ![t] = NoItem]
                 /\ UNCHANGED <<ring, pushedLog, poppedLog>>
       ELSE IF NotEmpty(ring) THEN CompletePop(t, tpc)
            ELSE /\ tpc' = [tpc EXCEPT ![t] = "idle"]
                 /\ top' = [top EXCEPT ![t] = "none"]
                 /\ UNCHANGED <<ring, targ, pushedLog, poppedLog>>
    /\ phase' = "mixed"
    /\ UNCHANGED nextItem

\* std::condition_variable may wake a waiter without a notification
SpuriousWake(t) ==
    /\ UNCHANGED <<sysVars, filterVars, routeVars, extVars, lastRead>>
    /\ UNCHANGED capArg
    /\ tpc[t] = "waiting"
    /\ tpc' = [tpc EXCEPT ![t] = "woken"]
    /\ UNCHANGED <<ring, top, targ, nextItem, pushedLog, poppedLog, phase>>

\* a try_peek that removes the element it hands out
try_peek_takes(t) ==
    /\ UNCHANGED <<sysVars, filterVars, routeVars, extVars>>
    /\ t \in Consumers /\ tpc[t] = "idle"
    /\ lastRead' = IF ring.count_ = 0
                      THEN [op |-> "try_peek", ret |-> 0, out |-> NoItem]
                      ELSE [op |-> "try_peek", ret |-> 1, out |-> Front(ring)]
    /\ ring' = IF ring.count_ = 0 THEN ring ELSE Take(ring)
    /\ UNCHANGED <<tpc, top, targ, nextItem, pushedLog, poppedLog, phase,
                   capArg>>

\* bool try_peek(T& out) const
try_peek(t) ==
    /\ UNCHANGED <<sysVars, filterVars, routeVars, extVars>>
    /\ t \in Consumers /\ tpc[t] = "idle"
    /\ lastRead' = IF ring.count_ = 0
                      THEN [op |-> "try_peek", ret |-> 0, out |-> NoItem]
                      ELSE [op |-> "try_peek", ret |-> 1, out |-> Front(ring)]
    /\ UNCHANGED <<ring, tpc, top, targ, nextItem, pushedLog, poppedLog,
                   phase, capArg>>

\* size_t size() const, size_t capacity() const, bool empty() const
Observe(t) ==
    /\ UNCHANGED <<sysVars, filterVars, routeVars, extVars>>
    /\ tpc[t] = "idle"
    /\ lastRead' \in
          {[op |-> "size", ret |-> size(ring), out |-> NoItem],
           [op |-> "capacity", ret |-> capacity(ring), out |-> NoItem],
           [op |-> "empty", ret |-> IF empty(ring) THEN 1 ELSE 0,
            out |-> NoItem]}
    /\ UNCHANGED <<ring, tpc, top, targ, nextItem, pushedLog, poppedLog,
                   phase, capArg>>

\* void push_force(const T& v)
push_force(t) ==
    /\ UNCHANGED <<sysVars, filterVars, routeVars, extVars, lastRead>>
    /\ UNCHANGED capArg
    /\ t \in Producers /\ tpc[t] = "idle" /\ nextItem <= MaxItems
    /\ nextItem' = nextItem + 1
    /\ phase' = IF phase \in {"new", "force"} THEN "force" ELSE "mixed"
    /\ ring' = ForceStore(ring, nextItem)
    /\ pushedLog' = Append(pushedLog, nextItem)
    /\ \E woke \in NotifyOne(tpc, CvWaiters) : tpc' = woke
    /\ UNCHANGED <<top, targ, poppedLog>>

\* void clear()
clear(t) ==
    /\ UNCHANGED <<sysVars, filterVars, routeVars, extVars, lastRead>>
    /\ tpc[t] = "idle"
    /\ ring.count_ > 0 \/ CvWaiters \cup NotFullWaiters # {}
    /\ ring' = Cleared(ring)
    /\ tpc' = NotifyAll(tpc, CvWaiters \cup NotFullWaiters)
    /\ UNCHANGED capArg
    /\ phase' = "cleared"
    /\ UNCHANGED <<top, targ, nextItem, pushedLog, poppedLog>>

(***************************************************************************)
(* Channel operations as the tasks use them.  A timed pop returns false    *)
(* when the channel is still empty at its timeout; push_wait can complete  *)
(* only while the channel has room.                                        *)
(***************************************************************************)
ChannelPut(ch, v) == [BUF EXCEPT ![ch] = Store(@, v)]
ChannelTake(ch) == [BUF EXCEPT ![ch] = Take(@)]

\* std::optional<std::string> MqttClient::try_pop_message(topic)
QueuePop(tp) == [queues_ EXCEPT ![tp] = IF @ = <<>> THEN @ ELSE Tail(@)]

\* what the simulated vehicle and the sensor noise can produce
RawTemps == {70}
RawPositions == {<<500, 500>>}
RawAngles == {0}
\* what the bus delivers to the truck process
InboundTexts ==
    [comandos |-> {TXT_REARME, TXT_automatico_on},
     setpoints |-> {TXT_sp_460_509},
     defeito |-> {TXT_eletrica_1}]

(***************************************************************************)
(* TratamentoSensores_thread                                               *)
(***************************************************************************)
\* while (!stop_flag.load())
S_check ==
    /\ pcS = "check"
    /\ IF stop_flag THEN pcS' = "done"
       ELSE Len(produced) < MaxSamples /\ pcS' = "pop1"
    /\ UNCHANGED <<ringVars, filterVars, routeVars, extVars, events, stop_flag, BUF, queues_, ESTADO, COMANDO, ATUADOR, pub, clock, sens, pcL, l_pl, pcF, pcN, nav, pcC, c_pl, navCycles, produced, received, arrived>>

\* the first try_pop_message of .../sim/defeito: the payload is not used
S_pop1 ==
    /\ pcS = "pop1"
    /\ queues_' = QueuePop("defeito")
    /\ pcS' = "gen"
    /\ UNCHANGED <<ringVars, filterVars, routeVars, extVars, events, stop_flag, BUF, ESTADO, COMANDO, ATUADOR, pub, clock, sens, pcL, l_pl, pcF, pcN, nav, pcC, c_pl, navCycles, produced, received, arrived>>

\* C fmod(a, m) for m > 0: the result has the sign of a; in tenths
Fmod(a, m) == IF a >= 0 THEN a % m ELSE 0 - ((0 - a) % m)

\* int angv = round(fmod(heading + noise_ang(rng) + 360.0, 360.0));
\* if (angv < 0) angv += 360;  heading and noise in tenths of a degree
angv(heading, noise) ==
    RoundDiv(Fmod(heading + noise + 3600, 3600), 10)
      + (IF RoundDiv(Fmod(heading + noise + 3600, 3600), 10) < 0 THEN 360 ELSE 0)

\* raw sample, second try_pop_message of .../sim/defeito, filter, new-sample test
S_genWith(angles) ==
    /\ pcS = "gen"
    /\ \E pos \in RawPositions, ang \in angles, temp \in RawTemps :
         LET raw0 == [timestamp_ms |-> clock, i_posicao_x |-> pos[1],
                      i_posicao_y |-> pos[2], i_angulo_x |-> ang,
                      i_temperatura |-> temp, i_falha_eletrica |-> FALSE,
                      i_falha_hidraulica |-> FALSE]
             raw == InjectFlags(queues_["defeito"], raw0)
             ordem == Sensores(OrdemMediaMovel)
             f == filtrar(sens.janela_, ordem, raw)
         IN /\ sens' = [sens EXCEPT !.filtrado = f,
                                    !.janela_ = JanelaApos(sens.janela_, ordem, raw)]
            /\ IF f.timestamp_ms # sens.last_published_ts
               THEN /\ pcS' = "push_nav"
                    /\ produced' = Append(produced, f)
                    /\ UNCHANGED clock
               ELSE /\ pcS' = "check"
                    /\ clock' = clock + PeriodoMs
                    /\ UNCHANGED produced
    /\ queues_' = QueuePop("defeito")
    /\ UNCHANGED <<ringVars, filterVars, routeVars, extVars, events, stop_flag, BUF, ESTADO, COMANDO, ATUADOR, pub, pcL, l_pl, pcF, pcN, nav, pcC, c_pl, navCycles, received, arrived>>

\* one cycle of the sensor task with the raw angles of RawAngles
S_gen == S_genWith(RawAngles)

\* a sensor task that uses push_force on the navigation channel
S_push_nav_force ==
    /\ pcS = "push_nav"
    /\ BUF' = [BUF EXCEPT !["nav"] = ForceStore(@, sens.filtrado)]
    /\ pcS' = "push_logic"
    /\ UNCHANGED <<ringVars, filterVars, routeVars, extVars, events, stop_flag, queues_, ESTADO, COMANDO, ATUADOR, pub, clock, sens, pcL, l_pl, pcF, pcN, nav, pcC, c_pl, navCycles, produced, received, arrived>>

\* buf_nav.push_wait(filtrado)
S_push_nav ==
    /\ pcS = "push_nav"
    /\ NotFull(BUF["nav"])
    /\ BUF' = ChannelPut("nav", sens.filtrado)
    /\ pcS' = "push_logic"
    /\ UNCHANGED <<ringVars, filterVars, routeVars, extVars, events, stop_flag, queues_, ESTADO, COMANDO, ATUADOR, pub, clock, sens, pcL, l_pl, pcF, pcN, nav, pcC, c_pl, navCycles, produced, received, arrived>>

\* a sensor task whose push on the logic channel gives up when its wait
\* times out (push_wait_for) and goes on with the next channel
S_push_logic_timed ==
    /\ pcS = "push_logic"
    /\ BUF' = IF NotFull(BUF["logic"]) THEN ChannelPut("logic", sens.filtrado) ELSE BUF
    /\ pcS' = "push_falhas"
    /\ UNCHANGED <<ringVars, filterVars, routeVars, extVars, events, stop_flag, queues_, ESTADO, COMANDO, ATUADOR, pub, clock, sens, pcL, l_pl, pcF, pcN, nav, pcC, c_pl, navCycles, produced, received, arrived>>


\* buf_logic.push_wait(filtrado)
S_push_logic ==
    /\ pcS = "push_logic"
    /\ NotFull(BUF["logic"])
    /\ BUF' = ChannelPut("logic", sens.filtrado)
    /\ pcS' = "push_falhas"
    /\ UNCHANGED <<ringVars, filterVars, routeVars, extVars, events, stop_flag, queues_, ESTADO, COMANDO, ATUADOR, pub, clock, sens, pcL, l_pl, pcF, pcN, nav, pcC, c_pl, navCycles, produced, received, arrived>>

\* buf_falhas.push_wait(filtrado)
S_push_falhas ==
    /\ pcS = "push_falhas"
    /\ NotFull(BUF["falhas"])
    /\ BUF' = ChannelPut("falhas", sens.filtrado)
    /\ pcS' = "push_coletor"
    /\ UNCHANGED <<ringVars, filterVars, routeVars, extVars, events, stop_flag, queues_, ESTADO, COMANDO, ATUADOR, pub, clock, sens, pcL, l_pl, pcF, pcN, nav, pcC, c_pl, navCycles, produced, received, arrived>>

\* buf_coletor.push_wait(filtrado), the two publishes, last_published_ts, sleep
S_push_coletor ==
    /\ pcS = "push_coletor"
    /\ NotFull(BUF["coletor"])
    /\ BUF' = ChannelPut("coletor", sens.filtrado)
    /\ sens' = [sens EXCEPT !.last_published_ts = sens.filtrado.timestamp_ms]
    /\ clock' = clock + PeriodoMs
    /\ pcS' = "check"
    /\ UNCHANGED <<ringVars, filterVars, routeVars, extVars, events, stop_flag, queues_, ESTADO, COMANDO, ATUADOR, pub, pcL, l_pl, pcF, pcN, nav, pcC, c_pl, navCycles, produced, received, arrived>>

(***************************************************************************)
(* LogicaDeComando_thread                                                  *)
(***************************************************************************)
L_check ==
    /\ pcL = "check"
    /\ pcL' = IF stop_flag THEN "done" ELSE "drain"
    /\ UNCHANGED <<ringVars, filterVars, routeVars, extVars, events, stop_flag, BUF, queues_, ESTADO, COMANDO, ATUADOR, pub, clock, pcS, sens, l_pl, pcF, pcN, nav, pcC, c_pl, navCycles, produced, received, arrived>>

\* buf_logic.pop_wait_for(sd, 50ms): the sample is dropped
L_drain ==
    /\ pcL = "drain"
    /\ IF NotEmpty(BUF["logic"])
       THEN /\ BUF' = ChannelTake("logic")
            /\ received' = [received EXCEPT !["logic"] = Append(@, Front(BUF["logic"]))]
       ELSE UNCHANGED <<BUF, received>>
    /\ pcL' = "cmd"
    /\ UNCHANGED <<ringVars, filterVars, routeVars, extVars, events, stop_flag, queues_, ESTADO, COMANDO, ATUADOR, pub, clock, pcS, sens, l_pl, pcF, pcN, nav, pcC, c_pl, navCycles, produced, arrived>>

\* buf_cmds.pop_wait_for(cmdpl, 50ms): decode it, else poll .../comandos
L_cmd ==
    /\ pcL = "cmd"
    /\ IF NotEmpty(BUF["cmds"])
       THEN LET pl == Front(BUF["cmds"])
                vx == extract_int_arg(pl, KW_x)
                vy == extract_int_arg(pl, KW_y)
            IN /\ BUF' = ChannelTake("cmds")
               /\ ESTADO' = DecodeEstados(pl, ESTADO)
               /\ COMANDO' = DecodeComandos(pl, COMANDO)
               /\ pub' = IF vx.ok /\ vy.ok
                         THEN [pub EXCEPT !.setpoints = {<<vx.out, vy.out>>}] ELSE pub
               /\ pcL' = "check"
               /\ UNCHANGED <<queues_, l_pl>>
       ELSE /\ IF queues_["comandos"] # <<>>
               THEN /\ l_pl' = Head(queues_["comandos"])
                    /\ pcL' = "fwd"
               ELSE /\ pcL' = "check"
                    /\ UNCHANGED l_pl
            /\ queues_' = QueuePop("comandos")
            /\ UNCHANGED <<BUF, ESTADO, COMANDO, pub>>
    /\ UNCHANGED <<ringVars, filterVars, routeVars, extVars, events, stop_flag, ATUADOR, clock, pcS, sens, pcF, pcN, nav, pcC, c_pl, navCycles, produced, received, arrived>>

\* buf_cmds.push_wait(pl) of the polled command, then sleep
L_fwd ==
    /\ pcL = "fwd"
    /\ NotFull(BUF["cmds"])
    /\ BUF' = ChannelPut("cmds", l_pl)
    /\ l_pl' = <<>>
    /\ pcL' = "check"
    /\ UNCHANGED <<ringVars, filterVars, routeVars, extVars, events, stop_flag, queues_, ESTADO, COMANDO, ATUADOR, pub, clock, pcS, sens, pcF, pcN, nav, pcC, c_pl, navCycles, produced, received, arrived>>

(***************************************************************************)
(* MonitoramentoDeFalhas_thread                                            *)
(***************************************************************************)
F_check ==
    /\ pcF = "check"
    /\ pcF' = IF stop_flag THEN "done" ELSE "body"
    /\ UNCHANGED <<ringVars, filterVars, routeVars, extVars, events, stop_flag, BUF, queues_, ESTADO, COMANDO, ATUADOR, pub, clock, pcS, sens, pcL, l_pl, pcN, nav, pcC, c_pl, navCycles, produced, received, arrived>>

\* a monitor that waits for its sample with the untimed pop_wait
F_body_pop_wait ==
    /\ pcF = "body"
    /\ NotEmpty(BUF["falhas"])
    /\ BUF' = ChannelTake("falhas")
    /\ received' = [received EXCEPT !["falhas"] = Append(@, Front(BUF["falhas"]))]
    /\ ESTADO' = FalhasEstados(Front(BUF["falhas"]), ESTADO)
    /\ pcF' = "check"
    /\ UNCHANGED <<ringVars, filterVars, routeVars, extVars, events, stop_flag, queues_, COMANDO, ATUADOR, pub, clock, pcS, sens, pcL, l_pl, pcN, nav, pcC, c_pl, navCycles, produced, arrived>>

\* a monitor that cuts the throttle itself when it processes a sample
F_body_cuts_throttle ==
    /\ pcF = "body"
    /\ IF NotEmpty(BUF["falhas"])
       THEN LET sd == Front(BUF["falhas"])
                temp_alert == sd.i_temperatura > TempAlerta
                temp_defect == sd.i_temperatura > TempDefeito
            IN /\ BUF' = ChannelTake("falhas")
               /\ received' = [received EXCEPT !["falhas"] = Append(@, sd)]
               /\ ESTADO' = FalhasEstados(sd, ESTADO)
               /\ ATUADOR' = [ATUADOR EXCEPT !.o_aceleracao = 0]
               /\ pub' = IF temp_alert \/ temp_defect
                            \/ sd.i_falha_eletrica \/ sd.i_falha_hidraulica
                         THEN [pub EXCEPT !.eventos = {EventoPayload(sd)}]
                         ELSE pub
               /\ events' = IF temp_alert \/ temp_defect
                               \/ sd.i_falha_eletrica \/ sd.i_falha_hidraulica
                            THEN [truck |-> Append(events.truck, EventoPayload(sd)),
                                  fleet |-> Append(events.fleet, GerentePayload(sd))]
                            ELSE events
       ELSE UNCHANGED <<BUF, received, ESTADO, ATUADOR, pub, events>>
    /\ pcF' = "check"
    /\ UNCHANGED <<ringVars, filterVars, routeVars, extVars, stop_flag, queues_, COMANDO, clock, pcS, sens, pcL, l_pl, pcN, nav, pcC, c_pl, navCycles, produced, arrived>>

\* pop_wait_for(sd, 100ms); on a sample: status stores, events, sleep
F_body ==
    /\ pcF = "body"
    /\ IF NotEmpty(BUF["falhas"])
       THEN LET sd == Front(BUF["falhas"])
                temp_alert == sd.i_temperatura > TempAlerta
                temp_defect == sd.i_temperatura > TempDefeito
            IN /\ BUF' = ChannelTake("falhas")
               /\ received' = [received EXCEPT !["falhas"] = Append(@, sd)]
               /\ ESTADO' = FalhasEstados(sd, ESTADO)
               /\ pub' = IF temp_alert \/ temp_defect
                            \/ sd.i_falha_eletrica \/ sd.i_falha_hidraulica
                         THEN [pub EXCEPT !.eventos = {EventoPayload(sd)}]
                         ELSE pub
               /\ events' = IF temp_alert \/ temp_defect
                               \/ sd.i_falha_eletrica \/ sd.i_falha_hidraulica
                            THEN [truck |-> Append(events.truck, EventoPayload(sd)),
                                  fleet |-> Append(events.fleet, GerentePayload(sd))]
                            ELSE events
       ELSE UNCHANGED <<BUF, received, ESTADO, pub, events>>
    /\ pcF' = "check"
    /\ UNCHANGED <<ringVars, filterVars, routeVars, extVars, stop_flag, queues_, COMANDO, ATUADOR, clock, pcS, sens, pcL, l_pl, pcN, nav, pcC, c_pl, navCycles, produced, arrived>>

(***************************************************************************)
(* ControleDeNavegacao_thread                                              *)
(***************************************************************************)
N_check ==
    /\ pcN = "check"
    /\ IF stop_flag THEN pcN' = "done" /\ UNCHANGED navCycles
       ELSE /\ navCycles < MaxNavCycles
            /\ navCycles' = navCycles + 1
            /\ pcN' = "pop"
    /\ UNCHANGED <<ringVars, filterVars, routeVars, extVars, events, stop_flag, BUF, queues_, ESTADO, COMANDO, ATUADOR, pub, clock, pcS, sens, pcL, l_pl, pcF, nav, pcC, c_pl, produced, received, arrived>>

\* pop_wait_for(sd, 100ms), the setpoint message, the speed estimate, last_sd
N_pop ==
    /\ pcN = "pop"
    /\ LET have == NotEmpty(BUF["nav"])
           sd == IF have THEN Front(BUF["nav"]) ELSE SensorData0
           sp == SetpointAfter(nav, queues_["setpoints"])
       IN /\ nav' = [nav EXCEPT !.have_sd = have, !.sd = sd,
                                !.setpoint_x = sp[1], !.setpoint_y = sp[2],
                                !.sp_msg = queues_["setpoints"] # <<>>,
                                !.estimated_speed = EstimateSpeed(nav, have, sd),
                                !.last_sd = IF have THEN sd ELSE @,
                                !.prev_sd = IF have THEN nav.last_sd ELSE @]
          /\ IF have
             THEN /\ BUF' = ChannelTake("nav")
                  /\ received' = [received EXCEPT !["nav"] = Append(@, sd)]
             ELSE UNCHANGED <<BUF, received>>
    /\ queues_' = QueuePop("setpoints")
    /\ pcN' = "rd_auto"
    /\ UNCHANGED <<ringVars, filterVars, routeVars, extVars, events, stop_flag, ESTADO, COMANDO, ATUADOR, pub, clock, pcS, sens, pcL, l_pl, pcF, pcC, c_pl, navCycles, produced, arrived>>

\* bool is_auto = estados.e_automatico.load()
N_rd_auto ==
    /\ pcN = "rd_auto"
    /\ nav' = [nav EXCEPT !.is_auto = ESTADO.e_automatico,
                          !.prev_auto = ESTADO.e_automatico]
    /\ pcN' = "rd_def"
    /\ UNCHANGED <<ringVars, filterVars, routeVars, extVars, events, stop_flag, BUF, queues_, ESTADO, COMANDO, ATUADOR, pub, clock, pcS, sens, pcL, l_pl, pcF, pcC, c_pl, navCycles, produced, received, arrived>>

\* bool is_def = estados.e_defeito.load()
N_rd_def ==
    /\ pcN = "rd_def"
    /\ nav' = [nav EXCEPT !.is_def = ESTADO.e_defeito]
    /\ pcN' = "act"
    /\ UNCHANGED <<ringVars, filterVars, routeVars, extVars, events, stop_flag, BUF, queues_, ESTADO, COMANDO, ATUADOR, pub, clock, pcS, sens, pcL, l_pl, pcF, pcC, c_pl, navCycles, produced, received, arrived>>

\* the branch taken with the flags read, its stores and its publish, sleep
N_act ==
    /\ pcN = "act"
    /\ LET r == IF nav.is_def THEN NavFaulted(nav, ATUADOR)
                ELSE IF ~nav.is_auto THEN NavManual(nav, ATUADOR, COMANDO)
                ELSE NavAuto(nav, ATUADOR)
       IN /\ nav' = r.nav
          /\ ATUADOR' = r.atu
          /\ pub' = IF r.pub = {} THEN pub ELSE [pub EXCEPT !.atuadores = r.pub]
    /\ pcN' = "check"
    /\ UNCHANGED <<ringVars, filterVars, routeVars, extVars, events, stop_flag, BUF, queues_, ESTADO, COMANDO, clock, pcS, sens, pcL, l_pl, pcF, pcC, c_pl, navCycles, produced, received, arrived>>

(***************************************************************************)
(* ColetorDeDados_thread: the description column of a Tabela 3 log line.   *)
(***************************************************************************)
DESC_ALERTA_TEMP == <<"A", "L", "E", "R", "T", "A", "_", "T", "E", "M", "P">>
DESC_OK == <<"O", "K">>
DESC_FALHA_ELETRICA == <<"F", "A", "L", "H", "A", "_", "E", "L", "E", "T", "R", "I", "C", "A", ";">>
DESC_FALHA_HIDRAULICA == <<"F", "A", "L", "H", "A", "_", "H", "I", "D", "R", "A", "U", "L", "I", "C", "A", ";">>
DESC_DEFEITO_TEMPERATURA == <<"D", "E", "F", "E", "I", "T", "O", "_", "T", "E", "M", "P", "E", "R", "A", "T", "U", "R", "A", ";">>

\* a description that lists the sample's faults before it looks at the alert
desc_str_faults_first(sd, est) ==
    LET desc == (IF sd.i_falha_eletrica THEN DESC_FALHA_ELETRICA ELSE <<>>)
                \o (IF sd.i_falha_hidraulica THEN DESC_FALHA_HIDRAULICA ELSE <<>>)
                \o (IF sd.i_temperatura > TempDefeito THEN DESC_DEFEITO_TEMPERATURA ELSE <<>>)
    IN IF desc # <<>> THEN desc
       ELSE IF est.e_alerta_temperatura THEN DESC_ALERTA_TEMP ELSE DESC_OK

\* std::string desc_str of one logged sample
desc_str(sd, est) ==
    IF est.e_alerta_temperatura THEN DESC_ALERTA_TEMP
    ELSE LET desc == (IF sd.i_falha_eletrica THEN DESC_FALHA_ELETRICA ELSE <<>>)
                     \o (IF sd.i_falha_hidraulica THEN DESC_FALHA_HIDRAULICA ELSE <<>>)
                     \o (IF sd.i_temperatura > TempDefeito
                         THEN DESC_DEFEITO_TEMPERATURA ELSE <<>>)
         IN IF desc = <<>> THEN DESC_OK ELSE desc

\* the line written to logs/logs_caminhao.txt for one sample
Tabela3(sd, est) ==
    [timestamp_ms |-> sd.timestamp_ms, truck_id |-> TruckId,
     estado |-> IF est.e_automatico THEN "AUTOMATICO" ELSE "MANUAL",
     pos_x |-> sd.i_posicao_x, pos_y |-> sd.i_posicao_y,
     descricao |-> desc_str(sd, est)]

(***************************************************************************)
(* ColetorDeDados_thread                                                   *)
(***************************************************************************)
C_check ==
    /\ pcC = "check"
    /\ pcC' = IF stop_flag THEN "done" ELSE "pop"
    /\ UNCHANGED <<ringVars, filterVars, routeVars, extVars, events, stop_flag, BUF, queues_, ESTADO, COMANDO, ATUADOR, pub, clock, pcS, sens, pcL, l_pl, pcF, pcN, nav, c_pl, navCycles, produced, received, arrived>>

\* pop_wait_for(sd, 200ms); on a sample: log line, CSV row, publishes
C_pop ==
    /\ pcC = "pop"
    /\ IF NotEmpty(BUF["coletor"])
       THEN /\ BUF' = ChannelTake("coletor")
            /\ received' = [received EXCEPT !["coletor"] = Append(@, Front(BUF["coletor"]))]
            /\ pub' = [pub EXCEPT !.logs = {Tabela3(Front(BUF["coletor"]), ESTADO)}]
            /\ pcC' = "cmd"
       ELSE /\ pcC' = "check"
            /\ UNCHANGED <<BUF, received, pub>>
    /\ UNCHANGED <<ringVars, filterVars, routeVars, extVars, events, stop_flag, queues_, ESTADO, COMANDO, ATUADOR, clock, pcS, sens, pcL, l_pl, pcF, pcN, nav, c_pl, navCycles, produced, arrived>>

\* try_pop_message(.../comandos): decode it in place and keep it to forward
C_cmd ==
    /\ pcC = "cmd"
    /\ IF queues_["comandos"] # <<>>
       THEN LET pl == Head(queues_["comandos"])
            IN /\ ESTADO' = DecodeEstados(pl, ESTADO)
               /\ COMANDO' = DecodeComandos(pl, COMANDO)
               /\ c_pl' = pl
               /\ pcC' = "fwd"
       ELSE /\ pcC' = "check"
            /\ UNCHANGED <<ESTADO, COMANDO, c_pl>>
    /\ queues_' = QueuePop("comandos")
    /\ UNCHANGED <<ringVars, filterVars, routeVars, extVars, events, stop_flag, BUF, ATUADOR, pub, clock, pcS, sens, pcL, l_pl, pcF, pcN, nav, navCycles, produced, received, arrived>>

\* buf_cmds.push_wait(pl), the DBG_CMD log line, sleep
C_fwd ==
    /\ pcC = "fwd"
    /\ NotFull(BUF["cmds"])
    /\ BUF' = ChannelPut("cmds", c_pl)
    /\ c_pl' = <<>>
    /\ pcC' = "check"
    /\ UNCHANGED <<ringVars, filterVars, routeVars, extVars, events, stop_flag, queues_, ESTADO, COMANDO, ATUADOR, pub, clock, pcS, sens, pcL, l_pl, pcF, pcN, nav, navCycles, produced, received, arrived>>

(***************************************************************************)
(* Environment: the operator's Ctrl+C and the bus delivering messages.     *)
(***************************************************************************)
\* void signal_handler(int)
SetStop ==
    /\ ~stop_flag
    /\ stop_flag' = TRUE
    /\ UNCHANGED <<ringVars, filterVars, routeVars, extVars, events, BUF, queues_, ESTADO, COMANDO, ATUADOR, pub, clock, pcS, sens, pcL, l_pl, pcF, pcN, nav, pcC, c_pl, navCycles, produced, received, arrived>>

\* void MqttClient::Callback::message_arrived(msg), for one subscribed topic
MqttArrive(tp) ==
    /\ arrived < MaxMsgs
    /\ \E txt \in InboundTexts[tp] :
          queues_' = [queues_ EXCEPT ![tp] = Append(@, txt)]
    /\ arrived' = arrived + 1
    /\ UNCHANGED <<ringVars, filterVars, routeVars, extVars, events, stop_flag, BUF, ESTADO, COMANDO, ATUADOR, pub, clock, pcS, sens, pcL, l_pl, pcF, pcN, nav, pcC, c_pl, navCycles, produced, received>>

\* Sensores filtro(ordem): the object the constructor leaves
NewSensores(ordem) == [ordem_ |-> Sensores(ordem), janela_ |-> <<>>]

\* the stand-alone filter is constructed as main() constructs its own and is
\* not called
InitFilterIdle ==
    /\ ordemArg = OrdemMediaMovel
    /\ filtro = NewSensores(ordemArg)
    /\ rawLog = <<>>
    /\ outLog = <<>>

\* Route r; no route file written yet
\* ---------------------------------------------------------------------------
\* MqttClient's inbound queues, one mutex operation at a time
\* (MqttClient.cpp: try_pop_message, Callback::message_arrived).
\* A payload is the index of its arrival, so that every message is distinct.
\* ---------------------------------------------------------------------------
MqttCallers == {"logic", "coletor"}

MqttThreads == MqttCallers \cup {"callback"}

PolledTopics == {"comandos", "setpoints", "posicao"}

ArrivingTopics == {"comandos", "setpoints"}

\* std::lock_guard's constructor taken without looking at the owner
M_lock_unguarded(t) ==
    /\ mpc[t] = "lock"
    /\ q_mtx_' = t
    /\ mpc' = [mpc EXCEPT ![t] = IF t = "callback" THEN "push" ELSE "find"]
    /\ UNCHANGED <<mqtt_queues, mloc, mlog>>
    /\ UNCHANGED <<ringVars, filterVars, routeVars, sysVars, mainVars>>

\* std::lock_guard<std::mutex> lock(q_mtx_)
M_lock(t) ==
    /\ mpc[t] = "lock"
    /\ q_mtx_ = "free"
    /\ q_mtx_' = t
    /\ mpc' = [mpc EXCEPT ![t] = IF t = "callback" THEN "push" ELSE "find"]
    /\ UNCHANGED <<mqtt_queues, mloc, mlog>>
    /\ UNCHANGED <<ringVars, filterVars, routeVars, sysVars, mainVars>>

\* the end of the scope of the lock_guard
M_unlock(t) ==
    /\ mpc[t] = "unlock"
    /\ q_mtx_' = "free"
    /\ mpc' = [mpc EXCEPT ![t] = "idle"]
    /\ mlog' = IF t = "callback" THEN mlog
               ELSE [mlog EXCEPT !.returned =
                        Append(@, [by |-> t, topic |-> mloc[t].topic,
                                   m |-> mloc[t].m])]
    /\ UNCHANGED <<mqtt_queues, mloc>>
    /\ UNCHANGED <<ringVars, filterVars, routeVars, sysVars, mainVars>>

\* a task calls try_pop_message(topic)
M_call(t, tp) ==
    /\ mpc[t] = "idle"
    /\ Len(mlog.returned) + Cardinality({u \in MqttCallers : mpc[u] # "idle"})
          <= MaxCmds
    /\ mpc' = [mpc EXCEPT ![t] = "lock"]
    /\ mloc' = [mloc EXCEPT ![t] = [topic |-> tp, m |-> 0]]
    /\ UNCHANGED <<mqtt_queues, q_mtx_, mlog>>
    /\ UNCHANGED <<ringVars, filterVars, routeVars, sysVars, mainVars>>

\* queues_.find(topic), the two early returns, and m = front()
M_find(t) ==
    /\ mpc[t] = "find"
    /\ IF mloc[t].topic \notin DOMAIN mqtt_queues
          THEN mpc' = [mpc EXCEPT ![t] = "unlock"] /\ UNCHANGED mloc
          ELSE IF mqtt_queues[mloc[t].topic] = <<>>
                  THEN mpc' = [mpc EXCEPT ![t] = "unlock"] /\ UNCHANGED mloc
                  ELSE /\ mloc' = [mloc EXCEPT ![t].m =
                                      Head(mqtt_queues[mloc[t].topic])]
                       /\ mpc' = [mpc EXCEPT ![t] = "pop"]
    /\ UNCHANGED <<mqtt_queues, q_mtx_, mlog>>
    /\ UNCHANGED <<ringVars, filterVars, routeVars, sysVars, mainVars>>

\* it->second.pop(); return m
M_pop(t) ==
    /\ mpc[t] = "pop"
    /\ mqtt_queues' = [mqtt_queues EXCEPT ![mloc[t].topic] =
                          IF @ = <<>> THEN @ ELSE Tail(@)]
    /\ mpc' = [mpc EXCEPT ![t] = "unlock"]
    /\ UNCHANGED <<q_mtx_, mloc, mlog>>
    /\ UNCHANGED <<ringVars, filterVars, routeVars, sysVars, mainVars>>

\* the client library calls message_arrived(msg)
M_arrive(tp) ==
    /\ mpc["callback"] = "idle"
    /\ Len(mlog.arrived) < MaxCmds
    /\ mloc' = [mloc EXCEPT !["callback"] =
                   [topic |-> tp, m |-> Len(mlog.arrived) + 1]]
    /\ mlog' = [mlog EXCEPT !.arrived =
                   Append(@, [topic |-> tp, m |-> Len(mlog.arrived) + 1])]
    /\ mpc' = [mpc EXCEPT !["callback"] = "lock"]
    /\ UNCHANGED <<mqtt_queues, q_mtx_>>
    /\ UNCHANGED <<ringVars, filterVars, routeVars, sysVars, mainVars>>

\* parent_->queues_[msg->get_topic()].push(msg->get_payload_str())
M_push ==
    /\ mpc["callback"] = "push"
    /\ mqtt_queues' =
          IF mloc["callback"].topic \in DOMAIN mqtt_queues
             THEN [mqtt_queues EXCEPT ![mloc["callback"].topic] =
                      Append(@, mloc["callback"].m)]
             ELSE (mloc["callback"].topic :> <<mloc["callback"].m>>)
                     @@ mqtt_queues
    /\ mpc' = [mpc EXCEPT !["callback"] = "unlock"]
    /\ UNCHANGED <<q_mtx_, mloc, mlog>>
    /\ UNCHANGED <<ringVars, filterVars, routeVars, sysVars, mainVars>>

InitMqttIdle ==
    /\ mqtt_queues = <<>>
    /\ q_mtx_ = "free"
    /\ mpc = [t \in MqttThreads |-> "idle"]
    /\ mloc = [t \in MqttThreads |-> [topic |-> "", m |-> 0]]
    /\ mlog = [arrived |-> <<>>, returned |-> <<>>]

InitMainIdle ==
    /\ pcM = "loop"
    /\ pcR = "start"
    /\ joined = <<>>

InitExtIdle == InitMqttIdle /\ InitMainIdle

InitRouteIdle ==
    /\ route = <<>>
    /\ routeFile = [exists |-> FALSE, content |-> <<>>]
    /\ routeRet = "none"
    /\ routeOp = "new"
    /\ routeArg = <<>>
    /\ savedRoute = [by_save |-> FALSE, waypoints |-> <<>>]

\* the client threads of the stand-alone buffer are not running
InitRingIdle ==
    /\ capArg = 1
    /\ ring = BufferCircular(capArg, NoItem)
    /\ tpc = [t \in Threads |-> "idle"]
    /\ top = [t \in Threads |-> "none"]
    /\ targ = [t \in Threads |-> NoItem]
    /\ nextItem = 1
    /\ pushedLog = <<>>
    /\ poppedLog = <<>>
    /\ phase = "new"
    /\ lastRead = [op |-> "none", ret |-> 0, out |-> NoItem]

(***************************************************************************)
(* Spec: the whole truck process.                                          *)
(***************************************************************************)
Init == InitSys /\ InitRingIdle /\ InitFilterIdle /\ InitRouteIdle /\ InitExtIdle

Next ==
    \/ S_check \/ S_pop1 \/ S_gen
    \/ S_push_nav \/ S_push_logic \/ S_push_falhas \/ S_push_coletor
    \/ L_check \/ L_drain \/ L_cmd \/ L_fwd
    \/ F_check \/ F_body
    \/ N_check \/ N_pop \/ N_rd_auto \/ N_rd_def \/ N_act
    \/ C_check \/ C_pop \/ C_cmd \/ C_fwd
    \/ SetStop
    \/ \E tp \in Topics : MqttArrive(tp)

Spec == Init /\ [][Next]_vars

(***************************************************************************)
(* SpecNav: ControleDeNavegacao_thread against everything it reads.  The   *)
(* other tasks appear by their effects on what the task reads: a sample    *)
(* put into BUF_NAV, a store into the mode flag or into a toggle command   *)
(* by a command decode, a fault stored by the monitor.                     *)
(***************************************************************************)
\* filtered samples <<x, y, heading, temperature>>: positions on the line
\* through the initial setpoint with slope -9/40 and headings at both ends
\* of 0..359; a normal and a defect temperature
NavSamples == {<<500, 500, 0, 70>>, <<540, 491, 359, 70>>}
TempSamples == {<<500, 500, 0, 70>>, <<500, 500, 0, 130>>}
OneSample == {<<500, 500, 0, 70>>}

\* buf.push_wait(filtrado) by the sensor task, for one channel; the k-th
\* sample of a channel carries the time of the k-th sensor period, and a
\* sample written with six components carries the two fault flags
Feed(ch, samples) ==
    /\ Len(received[ch]) + size(BUF[ch]) < MaxSamples
    /\ NotFull(BUF[ch])
    /\ \E smp \in samples :
         BUF' = ChannelPut(ch, [timestamp_ms |->
                                    PeriodoMs * (Len(received[ch]) + size(BUF[ch]) + 1),
                                i_posicao_x |-> smp[1],
                                i_posicao_y |-> smp[2], i_angulo_x |-> smp[3],
                                i_temperatura |-> smp[4],
                                i_falha_eletrica |-> Len(smp) > 4 /\ smp[5],
                                i_falha_hidraulica |-> Len(smp) > 4 /\ smp[6]])
    /\ UNCHANGED <<ringVars, filterVars, routeVars, extVars, events, stop_flag, queues_, ESTADO, COMANDO, ATUADOR, pub, clock, pcS, sens, pcL, l_pl, pcF, pcN, nav, pcC, c_pl, navCycles, produced, received, arrived>>

\* estados.e_automatico.store(v) by a command decode of another task
ModeStored ==
    /\ \E v \in BOOLEAN :
         /\ v # ESTADO.e_automatico
         /\ ESTADO' = [ESTADO EXCEPT !.e_automatico = v]
    /\ UNCHANGED <<ringVars, filterVars, routeVars, extVars, events, stop_flag, BUF, queues_, COMANDO, ATUADOR, pub, clock, pcS, sens, pcL, l_pl, pcF, pcN, nav, pcC, c_pl, navCycles, produced, received, arrived>>

\* comandos.c_acelera / c_esquerda .store(v) by a command decode
ToggleStored ==
    /\ \E f \in {"c_acelera", "c_esquerda"} :
         COMANDO' = [COMANDO EXCEPT ![f] = ~COMANDO[f]]
    /\ UNCHANGED <<ringVars, filterVars, routeVars, extVars, events, stop_flag, BUF, queues_, ESTADO, ATUADOR, pub, clock, pcS, sens, pcL, l_pl, pcF, pcN, nav, pcC, c_pl, navCycles, produced, received, arrived>>

\* estados.e_defeito.store(true) by MonitoramentoDeFalhas_thread
FaultStored ==
    /\ ~ESTADO.e_defeito
    /\ ESTADO' = [ESTADO EXCEPT !.e_defeito = TRUE]
    /\ UNCHANGED <<ringVars, filterVars, routeVars, extVars, events, stop_flag, BUF, queues_, COMANDO, ATUADOR, pub, clock, pcS, sens, pcL, l_pl, pcF, pcN, nav, pcC, c_pl, navCycles, produced, received, arrived>>

InitNav == InitSys /\ InitRingIdle /\ InitFilterIdle /\ InitRouteIdle /\ InitExtIdle

NextNav ==
    \/ N_check \/ N_pop \/ N_rd_auto \/ N_rd_def \/ N_act
    \/ Feed("nav", NavSamples) \/ ModeStored \/ ToggleStored \/ FaultStored

SpecNav == InitNav /\ [][NextNav]_vars

(***************************************************************************)
(* SpecTrack: ControleDeNavegacao_thread with mode changes and messages on *)
(* .../setpoints, for the setpoint it keeps while in Manual mode.          *)
(***************************************************************************)
InitTrack == InitSys /\ InitRingIdle /\ InitFilterIdle /\ InitRouteIdle /\ InitExtIdle

NextTrack ==
    \/ N_check \/ N_pop \/ N_rd_auto \/ N_rd_def \/ N_act
    \/ Feed("nav", NavSamples) \/ ModeStored
    \/ MqttArrive("setpoints")

SpecTrack == InitTrack /\ [][NextTrack]_vars

(***************************************************************************)
(* SpecStop: shutdown of the two tasks whose loops hold only timed waits   *)
(* and sleeps.  The scheduler runs every thread that can take a step, and  *)
(* a timed wait returns, hence weak fairness of each of their steps.       *)
(***************************************************************************)
InitStop == InitSys /\ InitRingIdle /\ InitFilterIdle /\ InitRouteIdle /\ InitExtIdle

NextStop ==
    \/ F_check \/ F_body
    \/ N_check \/ N_pop \/ N_rd_auto \/ N_rd_def \/ N_act
    \/ Feed("nav", OneSample) \/ Feed("falhas", OneSample)
    \/ SetStop

SpecStop ==
    /\ InitStop /\ [][NextStop]_vars
    /\ WF_vars(F_check) /\ WF_vars(F_body)
    /\ WF_vars(N_check) /\ WF_vars(N_pop) /\ WF_vars(N_rd_auto)
    /\ WF_vars(N_rd_def) /\ WF_vars(N_act)

(***************************************************************************)
(* SpecLatch: the three tasks that store into e_defeito, fed with samples  *)
(* and with messages on .../comandos.  LogicaDeComando_thread discards the *)
(* sample it pops, so its sample channel is left empty here.               *)
(***************************************************************************)
InitLatch == InitSys /\ InitRingIdle /\ InitFilterIdle /\ InitRouteIdle /\ InitExtIdle

NextLatch ==
    \/ F_check \/ F_body
    \/ L_check \/ L_drain \/ L_cmd \/ L_fwd
    \/ C_check \/ C_pop \/ C_cmd \/ C_fwd
    \/ Feed("falhas", TempSamples) \/ Feed("coletor", OneSample)
    \/ MqttArrive("comandos")

SpecLatch == InitLatch /\ [][NextLatch]_vars

(***************************************************************************)
(* SpecFanout: the sensor task and the four consumers of its samples.      *)
(***************************************************************************)
InitFanout == InitSys /\ InitRingIdle /\ InitFilterIdle /\ InitRouteIdle /\ InitExtIdle

NextFanout ==
    \/ S_check \/ S_pop1 \/ S_gen
    \/ S_push_nav \/ S_push_logic \/ S_push_falhas \/ S_push_coletor
    \/ L_check \/ L_drain \/ L_cmd
    \/ F_check \/ F_body
    \/ N_check \/ N_pop \/ N_rd_auto \/ N_rd_def \/ N_act
    \/ C_check \/ C_pop \/ C_cmd

SpecFanout == InitFanout /\ [][NextFanout]_vars

(***************************************************************************)
(* SpecFifo: producers use push_wait / push_wait_for, consumers use        *)
(* try_pop / pop_wait / pop_wait_for; no push_force, no clear.             *)
(***************************************************************************)
InitFifo == InitRing /\ InitSys /\ InitFilterIdle /\ InitRouteIdle /\ InitExtIdle

NextFifo ==
    \E t \in Threads :
        \/ push_wait(t)
        \/ push_wait_for(t)
        \/ try_pop(t)
        \/ pop_wait(t)
        \/ pop_wait_for(t)
        \/ Resume(t)
        \/ Timeout(t)
        \/ SpuriousWake(t)

SpecFifo == InitFifo /\ [][NextFifo]_vars

(***************************************************************************)
(* SpecBuf: every method of the buffer, any interleaving.                  *)
(***************************************************************************)
InitBuf == InitRing /\ InitSys /\ InitFilterIdle /\ InitRouteIdle /\ InitExtIdle

NextBuf ==
    \E t \in Threads :
        \/ push_force(t)
        \/ push_wait(t)
        \/ push_wait_for(t)
        \/ try_pop(t)
        \/ pop_wait(t)
        \/ pop_wait_for(t)
        \/ clear(t)
        \/ Resume(t)
        \/ Timeout(t)
        \/ SpuriousWake(t)

SpecBuf == InitBuf /\ [][NextBuf]_vars

(***************************************************************************)
(* C1: with only waiting pushes and pops, the items delivered so far       *)
(* followed by the items still held are exactly the items whose push       *)
(* completed, in completion order: nothing dropped, duplicated, reordered. *)
(***************************************************************************)
C1_FifoExact == pushedLog = poppedLog \o Contents(ring)

\* a producer is blocked on a full buffer after two items went through
C1_Witness ==
    /\ Len(poppedLog) >= 2
    /\ ring.count_ = ring.cap_
    /\ NotFullWaiters # {}

(***************************************************************************)
(* C2: after more than cap_ push_force calls on a new buffer with no pop   *)
(* in between, the buffer holds exactly the last cap_ pushed items, and    *)
(* the try_pop calls that follow hand them out oldest first; push_force    *)
(* is enabled for every idle producer whatever the fill level.             *)
(***************************************************************************)
C2_ForceKeepsLastN ==
    /\ (phase = "force" /\ Len(pushedLog) > ring.cap_)
           => Contents(ring) = LastN(pushedLog, ring.cap_)
    /\ (phase = "drain" /\ Len(pushedLog) > ring.cap_)
           => LastN(pushedLog, ring.cap_) = poppedLog \o Contents(ring)
    /\ \A t \in Producers :
           (tpc[t] = "idle" /\ nextItem <= MaxItems) => ENABLED push_force(t)

\* capacity 2, three forced pushes, then one try_pop returned the second item
C2_Witness ==
    /\ phase = "drain"
    /\ ring.cap_ = 2
    /\ pushedLog = <<1, 2, 3>>
    /\ poppedLog = <<2>>
    /\ Contents(ring) = <<3>>

(***************************************************************************)
(* C4: every value ControleDeNavegacao_thread stores into o_direcao lies   *)
(* in -180..180, in Manual and in Automatic mode, for every sample heading *)
(* in 0..359, every target position and every previous steering value in  *)
(* range.                                                                  *)
(***************************************************************************)
C4_SteeringInRange ==
    ATUADOR.o_direcao \in (0 - DirMax)..DirMax

(***************************************************************************)
(* C5: every value stored into o_aceleracao lies in -100..100 after every  *)
(* write, in the faulted, the Manual and the Automatic branch, for every   *)
(* speed error and integral value.                                         *)
(***************************************************************************)
C5_ThrottleInRange ==
    ATUADOR.o_aceleracao \in (0 - AcelMax)..AcelMax

\* an Automatic cycle whose P+I sum was below -100 stored -100
C5_Witness ==
    /\ pcN = "check"
    /\ nav.mode = "auto"
    /\ OutAccUnclamped(nav.error_v, nav.integrador_v) < 0 - AcelMax
    /\ ATUADOR.o_aceleracao = 0 - AcelMax

(***************************************************************************)
(* C6: a navigation cycle that read e_defeito = true, whatever it read for *)
(* e_automatico, stores o_aceleracao = 0, leaves o_direcao as it was,      *)
(* leaves the controller's locals (integral term, enable flag, setpoint)   *)
(* as they were, and publishes the actuators payload tagged e_defeito.     *)
(***************************************************************************)
C6_FaultedOverrides ==
    [][(pcN = "act" /\ nav.is_def /\ pcN' = "check") =>
          /\ ATUADOR'.o_aceleracao = 0
          /\ ATUADOR'.o_direcao = ATUADOR.o_direcao
          /\ nav'.integrador_v = nav.integrador_v
          /\ nav'.controller_enabled = nav.controller_enabled
          /\ nav'.setpoint_x = nav.setpoint_x
          /\ nav'.setpoint_y = nav.setpoint_y
          /\ pub'.atuadores = {Payload(0, ATUADOR.o_direcao, nav.is_auto, TRUE)}]_vars

\* a faulted cycle in Automatic, after a cycle that left steering and integral non-zero
C6_Witness ==
    /\ pcN = "check"
    /\ nav.mode = "faulted"
    /\ nav.is_auto
    /\ ATUADOR.o_direcao # 0
    /\ nav.integrador_v # 0
    /\ ATUADOR.o_aceleracao = 0

(***************************************************************************)
(* C8: on the first Automatic cycle after a Manual cycle that left the     *)
(* throttle at T, the throttle output u satisfies                          *)
(* |u - T| <= |Kp_v*e + Ki_v*Ts*e|, e being the speed error of the cycle.  *)
(* Both sides are in millionths.                                           *)
(***************************************************************************)
C8_BumplessBound ==
    (pcN = "check" /\ nav.mode = "auto" /\ nav.prev_mode = "manual" /\ nav.seeded) =>
        Abs(ATUADOR.o_aceleracao - nav.acel_antes) * 1000000
            <= Abs(nav.error_v * Kp_v_x1000
                   + nav.error_v * ((Ki_v_x1000 * Ts_ms) \div 1000))

(***************************************************************************)
(* C9: at the end of every cycle run in Manual mode after at least one     *)
(* sample was received, the setpoint equals the position of the most       *)
(* recent sample received, also when the cycle consumed a setpoint         *)
(* message; and on the first Automatic cycle after Manual that consumed no *)
(* setpoint message, the positional error is the displacement between the  *)
(* last two samples.                                                       *)
(***************************************************************************)
C9_ManualTracksPosition ==
    /\ (pcN = "check" /\ nav.mode = "manual" /\ nav.last_sd.timestamp_ms # 0) =>
          /\ nav.setpoint_x = nav.last_sd.i_posicao_x
          /\ nav.setpoint_y = nav.last_sd.i_posicao_y
    /\ (pcN = "check" /\ nav.mode = "auto" /\ nav.prev_mode = "manual"
          /\ ~nav.sp_msg /\ nav.prev_sd.timestamp_ms # 0) =>
          /\ nav.dx = nav.prev_sd.i_posicao_x - nav.sd.i_posicao_x
          /\ nav.dy = nav.prev_sd.i_posicao_y - nav.sd.i_posicao_y

\* a Manual cycle that consumed a setpoint message and a sample at another position
C9_Witness ==
    /\ pcN = "check"
    /\ nav.mode = "manual"
    /\ nav.sp_msg
    /\ nav.have_sd
    /\ nav.sd.i_posicao_x = 540
    /\ nav.setpoint_x = 540
    /\ nav.setpoint_y = 491

(***************************************************************************)
(* C3: e_defeito is a latch.  No step that processes a sensor sample sets  *)
(* it back to false; every step that takes it from true to false is the    *)
(* decoding of a command text that contains the rearm keyword, by          *)
(* LogicaDeComando_thread (text popped from buf_cmds) or by                *)
(* ColetorDeDados_thread (text polled from .../comandos).                  *)
(***************************************************************************)
C3_DefeitoLatch ==
    [][(ESTADO.e_defeito /\ ~ESTADO'.e_defeito) =>
          \/ /\ pcL = "cmd" /\ pcL' = "check"
             /\ NotEmpty(BUF["cmds"])
             /\ HasRearme(Front(BUF["cmds"]))
          \/ /\ pcC = "cmd" /\ pcC' = "fwd"
             /\ queues_["comandos"] # <<>>
             /\ HasRearme(Head(queues_["comandos"]))]_vars

\* the monitor saw a defect sample and then a normal one, the latch was still
\* set after both, and a rearm command has cleared it since
C3_Witness ==
    /\ Len(received["falhas"]) = 2
    /\ received["falhas"][1].i_temperatura > TempDefeito
    /\ received["falhas"][2].i_temperatura <= TempAlerta
    /\ COMANDO.c_rearme
    /\ ~ESTADO.e_defeito
    /\ ~ESTADO.e_alerta_temperatura

(***************************************************************************)
(* C7: each of the four sample channels holds, after what its consumer     *)
(* has taken, exactly the samples the sensor task has pushed to it so far, *)
(* once each and in production order; and while a channel is full the      *)
(* sensor task's push to it cannot complete.                               *)
(***************************************************************************)
PushedTo(ch) ==
    LET pending == CASE ch = "nav" -> {"push_nav"}
                     [] ch = "logic" -> {"push_nav", "push_logic"}
                     [] ch = "falhas" -> {"push_nav", "push_logic", "push_falhas"}
                     [] OTHER -> {"push_nav", "push_logic", "push_falhas", "push_coletor"}
    IN IF pcS \in pending THEN Len(produced) - 1 ELSE Len(produced)

C10_StopEndsLoops ==
    /\ []((pcF = "done" \/ pcN = "done") => stop_flag)
    /\ [][stop_flag => /\ (pcF = "check" => pcF' \in {"check", "done"})
                       /\ (pcN = "check" => pcN' \in {"check", "done"})]_vars
    /\ stop_flag ~> (pcF = "done" /\ pcN = "done")

\* both tasks have ended; a sample is left in the fault channel, the
\* navigation channel is empty, and the navigation task ran a cycle before
C10_Witness ==
    /\ stop_flag
    /\ pcF = "done" /\ pcN = "done"
    /\ NotEmpty(BUF["falhas"])
    /\ empty(BUF["nav"])
    /\ navCycles >= 1

(***************************************************************************)
(* SpecWake: every method of the buffer, any interleaving, with a          *)
(* scheduler that runs each notified thread: weak fairness of the step in  *)
(* which a woken waiter re-takes the mutex and re-tests its predicate.     *)
(* The timed push is not called here: it waits on not_full_cv_ and         *)
(* notifies cv_ exactly as push_wait does.                                 *)
(***************************************************************************)
InitWake == InitRing /\ InitSys /\ InitFilterIdle /\ InitRouteIdle /\ InitExtIdle

NextWake ==
    \E t \in Threads :
        \/ push_force(t)
        \/ push_wait(t)
        \/ try_pop(t)
        \/ pop_wait(t)
        \/ pop_wait_for(t)
        \/ clear(t)
        \/ Resume(t)
        \/ Timeout(t)
        \/ SpuriousWake(t)

SpecWake ==
    /\ InitWake /\ [][NextWake]_vars
    /\ \A t \in Threads : WF_vars(Resume(t))

\* threads a notification has reached and that have not run yet
WokenPop == {t \in Threads : tpc[t] = "woken" /\ top[t] \in PopOps}
WokenPush == {t \in Threads : tpc[t] = "woken" /\ top[t] \in PushOps}

(***************************************************************************)
(* C11: no lost wake-up.  While a consumer sleeps on cv_, every item held  *)
(* is matched by a consumer already notified, and while a producer sleeps  *)
(* on not_full_cv_, every free slot is matched by a notified producer; so  *)
(* nobody sleeps with its predicate true and no wake-up pending.  Under    *)
(* fair scheduling a caller of pop_wait returns unless the buffer becomes  *)
(* empty, and a caller of push_wait returns unless it becomes full.        *)
(***************************************************************************)
C11_NoLostWakeup ==
    /\ [](CvWaiters # {} => ring.count_ <= Cardinality(WokenPop))
    /\ [](NotFullWaiters # {} => ring.cap_ - ring.count_ <= Cardinality(WokenPush))
    /\ \A t \in Consumers :
          (tpc[t] # "idle" /\ top[t] = "pop_wait") ~> (tpc[t] = "idle" \/ empty(ring))
    /\ \A t \in Producers :
          (tpc[t] # "idle" /\ top[t] = "push_wait") ~> (tpc[t] = "idle" \/ ~NotFull(ring))

\* two consumers slept in pop_wait, a push notified one of them, the other
\* still sleeps and the item is there for the notified one
C11_Witness ==
    /\ \E t \in Consumers : tpc[t] = "woken" /\ top[t] = "pop_wait"
    /\ \E t \in Consumers : tpc[t] = "waiting" /\ top[t] = "pop_wait"
    /\ ring.count_ = 1

(***************************************************************************)
(* C12: clear() leaves size 0 with both cursors at 0 and nothing held,     *)
(* notifies every waiter, and each consumer that was inside pop_wait or    *)
(* pop_wait_for when clear() ran returns from its call without an item.    *)
(* (Nothing held after clear() is why no earlier item is delivered later.) *)
(***************************************************************************)
C12_ClearReleasesWaiters ==
    [][/\ (phase' = "cleared" /\ phase # "cleared") =>
            /\ size(ring') = 0 /\ ring'.head_ = 0 /\ ring'.tail_ = 0
            /\ Contents(ring') = <<>>
            /\ \A t \in Threads : tpc[t] = "waiting" => tpc'[t] = "woken"
       /\ \A t \in Consumers :
            (phase = "cleared" /\ tpc[t] = "woken" /\ top[t] \in PopOps
                 /\ tpc'[t] # "woken")
              => (tpc'[t] = "idle" /\ poppedLog' = poppedLog)]_vars

(***************************************************************************)
(* C13: a failed operation has no effect.  A push_wait_for whose timeout   *)
(* expires on a full buffer returns without inserting its item and leaves  *)
(* data, cursors and size as they were; a pop_wait_for whose timeout       *)
(* expires on an empty buffer, and any other step that delivers nothing    *)
(* from an empty buffer (try_pop), leaves the buffer as it was.            *)
(***************************************************************************)
C13_FailedOpNoEffect ==
    [][/\ \A t \in Producers :
            (tpc[t] = "waiting" /\ top[t] = "push_wait_for" /\ ~NotFull(ring)
                 /\ tpc'[t] = "idle")
              => /\ ring' = ring
                 /\ pushedLog' = pushedLog /\ poppedLog' = poppedLog
                 /\ \A i \in 1..Len(pushedLog') : pushedLog'[i] # targ[t]
       /\ \A t \in Consumers :
            (tpc[t] = "waiting" /\ top[t] = "pop_wait_for" /\ empty(ring)
                 /\ tpc'[t] = "idle")
              => /\ ring' = ring
                 /\ pushedLog' = pushedLog /\ poppedLog' = poppedLog
       /\ (empty(ring) /\ pushedLog' = pushedLog)
              => (ring' = ring /\ poppedLog' = poppedLog)]_vars

\* the buffer is full and an item whose push was started is neither in the
\* buffer history nor carried by a blocked producer: its timed push failed
C13_Witness ==
    /\ ~NotFull(ring)
    /\ \E i \in 1..(nextItem - 1) :
          /\ \A k \in 1..Len(pushedLog) : pushedLog[k] # i
          /\ \A t \in Producers : targ[t] # i
    /\ Contents(ring) = LastN(pushedLog, ring.cap_)

(***************************************************************************)
(* C14: after push_wait(x) on an empty buffer directly followed by         *)
(* pop_wait(), the item delivered is x and the buffer is empty again, for  *)
(* every capacity and wherever the cursors stood.                          *)
(***************************************************************************)
C14_PushThenPop ==
    phase = "popped_after" =>
        /\ size(ring) = 0
        /\ Len(poppedLog) > 0 /\ Len(pushedLog) > 0
        /\ poppedLog[Len(poppedLog)] = pushedLog[Len(pushedLog)]
        /\ poppedLog[Len(poppedLog)] = nextItem - 1

\* the pair ran on a buffer of capacity 2 whose cursors had advanced to 1
C14_Witness ==
    /\ phase = "popped_after"
    /\ ring.cap_ = 2
    /\ ring.tail_ = 0 /\ ring.head_ = 0
    /\ Len(poppedLog) >= 2
    /\ poppedLog[Len(poppedLog)] = nextItem - 1

(***************************************************************************)
(* SpecCtor: the constructor called with every capacity from 0 up, and     *)
(* every method of the object it leaves, if it leaves one.                 *)
(***************************************************************************)
InitCtor ==
    /\ capArg \in 0..MaxCap
    /\ ring = BufferCircular(capArg, NoItem)
    /\ tpc = [t \in Threads |-> "idle"]
    /\ top = [t \in Threads |-> "none"]
    /\ targ = [t \in Threads |-> NoItem]
    /\ nextItem = 1
    /\ pushedLog = <<>>
    /\ poppedLog = <<>>
    /\ phase = "new"
    /\ lastRead = [op |-> "none", ret |-> 0, out |-> NoItem]
    /\ InitSys /\ InitFilterIdle /\ InitRouteIdle /\ InitExtIdle

NextCtor == ~Thrown(ring) /\ NextBuf

SpecCtor == InitCtor /\ [][NextCtor]_vars

(***************************************************************************)
(* C15: BufferCircular(0) throws and leaves no object; BufferCircular(N)   *)
(* for N > 0 leaves an empty buffer with size 0 and capacity N, and the    *)
(* capacity stays N.                                                       *)
(***************************************************************************)
C15_CapacityChecked ==
    /\ capArg = 0 => (Thrown(ring) /\ ring.exception = "invalid_argument")
    /\ capArg > 0 =>
          /\ ~Thrown(ring)
          /\ capacity(ring) = capArg
          /\ phase = "new" => (size(ring) = 0 /\ empty(ring) /\ Contents(ring) = <<>>)

\* the constructor was called with 0
C15_Witness ==
    /\ capArg = 0
    /\ Thrown(ring)
    /\ pushedLog = <<>>

(***************************************************************************)
(* SpecFilter: one Sensores object constructed with an order from -1 up,   *)
(* then fed raw samples.                                                   *)
(***************************************************************************)
Ordens == (0 - 1)..MaxOrdem

\* raw samples <<x, y, heading, temperature, electrical, hydraulic>>
RawInputs ==
    {<<0, 0, 0, 70, FALSE, FALSE>>,
     <<10, 0 - 7, 359, 96, TRUE, FALSE>>,
     <<20, 5, 1, 130, FALSE, TRUE>>}

RawSample(smp, ts) ==
    [timestamp_ms |-> ts, i_posicao_x |-> smp[1], i_posicao_y |-> smp[2],
     i_angulo_x |-> smp[3], i_temperatura |-> smp[4],
     i_falha_eletrica |-> smp[5], i_falha_hidraulica |-> smp[6]]

InitFilter ==
    /\ ordemArg \in Ordens
    /\ filtro = NewSensores(ordemArg)
    /\ rawLog = <<>>
    /\ outLog = <<>>
    /\ InitSys /\ InitRingIdle /\ InitRouteIdle /\ InitExtIdle

\* one call filtro.filtrar(raw)
Filtrar ==
    /\ Len(rawLog) < MaxFeed
    /\ \E smp \in RawInputs :
         LET raw == RawSample(smp, PeriodoMs * (Len(rawLog) + 1))
         IN /\ outLog' = Append(outLog, filtrar(filtro.janela_, filtro.ordem_, raw))
            /\ filtro' = [filtro EXCEPT
                             !.janela_ = JanelaApos(filtro.janela_, filtro.ordem_, raw)]
            /\ rawLog' = Append(rawLog, raw)
    /\ UNCHANGED <<ordemArg, ringVars, routeVars, extVars, sysVars>>

NextFilter == Filtrar

SpecFilter == InitFilter /\ [][NextFilter]_vars

\* the four averaged fields of a sample
Averaged(sd) == <<sd.i_posicao_x, sd.i_posicao_y, sd.i_angulo_x, sd.i_temperatura>>

\* the integer-truncated means of the four fields over the samples of w
MeanOf(w) ==
    <<TruncDiv(SumX(w), Len(w)), TruncDiv(SumY(w), Len(w)),
      TruncDiv(SumAng(w), Len(w)), TruncDiv(SumTemp(w), Len(w))>>

(***************************************************************************)
(* C16: for an order K >= 1, the output for the n-th raw sample carries,   *)
(* in each averaged field, the truncated mean of that field over the last  *)
(* min(n, K) raw samples; a constant stream gives the constant; order 2    *)
(* fed position-x 0, 10, 20 gives 0, 5, 15; janela_ never exceeds K.       *)
(***************************************************************************)
C16_WindowMean ==
    (ordemArg >= 1 /\ Len(rawLog) >= 1) =>
        LET n == Len(rawLog)
            k == Min(n, ordemArg)
        IN /\ Len(outLog) = n
           /\ Averaged(outLog[n]) = MeanOf(LastN(rawLog, k))
           /\ Len(filtro.janela_) <= ordemArg
           /\ (\A i \in 1..n : Averaged(rawLog[i]) = Averaged(rawLog[1]))
                 => Averaged(outLog[n]) = Averaged(rawLog[1])
           /\ (ordemArg = 2 /\ [i \in 1..n |-> rawLog[i].i_posicao_x] = <<0, 10, 20>>)
                 => [i \in 1..n |-> outLog[i].i_posicao_x] = <<0, 5, 15>>

\* order 2 after 0, 10, 20: the window slid and the y mean of -7 and 5 is
\* truncated toward zero
C16_Witness ==
    /\ ordemArg = 2
    /\ Len(rawLog) = 3
    /\ [i \in 1..3 |-> rawLog[i].i_posicao_x] = <<0, 10, 20>>
    /\ [i \in 1..3 |-> outLog[i].i_posicao_y] = <<0, 0 - 3, 0 - 1>>
    /\ Len(filtro.janela_) = 2

(***************************************************************************)
(* C17: the constructor accepts an order <= 0 and the filter then behaves  *)
(* as one of order 1: the window holds one sample and every output equals  *)
(* the raw sample it was computed from.                                    *)
(***************************************************************************)
C17_NonPositiveOrderIsOne ==
    ordemArg <= 0 =>
        /\ ~Thrown(filtro)
        /\ filtro.ordem_ = 1
        /\ Len(outLog) = Len(rawLog)
        /\ Len(filtro.janela_) <= 1
        /\ \A i \in 1..Len(rawLog) : outLog[i] = rawLog[i]

\* order 0, two different raw samples passed through unchanged
C17_Witness ==
    /\ ordemArg = 0
    /\ Len(rawLog) >= 2
    /\ Averaged(rawLog[1]) # Averaged(rawLog[2])
    /\ Averaged(outLog[2]) = Averaged(rawLog[2])

(***************************************************************************)
(* C18: constructing the filter with an order <= 0 fails at construction   *)
(* with a configuration error, as BufferCircular(0) does.                  *)
(***************************************************************************)
C18_InvalidOrderFailsFast ==
    ordemArg <= 0 => Thrown(filtro)

(***************************************************************************)
(* SpecFalhas: MonitoramentoDeFalhas_thread fed with samples on both sides *)
(* of the two temperature thresholds, with and without the fault flags.    *)
(***************************************************************************)
FaultSamples ==
    {<<500, 500, 0, 70, FALSE, FALSE>>,
     <<500, 500, 0, 95, FALSE, FALSE>>,
     <<500, 500, 0, 96, FALSE, FALSE>>,
     <<500, 500, 0, 120, FALSE, FALSE>>,
     <<500, 500, 0, 121, FALSE, FALSE>>,
     <<500, 500, 0, 130, FALSE, FALSE>>,
     <<500, 500, 0, 70, TRUE, FALSE>>,
     <<500, 500, 0, 70, FALSE, TRUE>>}

InitFalhas == InitSys /\ InitRingIdle /\ InitFilterIdle /\ InitRouteIdle /\ InitExtIdle

NextFalhas ==
    \/ F_check \/ F_body
    \/ Feed("falhas", FaultSamples)

SpecFalhas == InitFalhas /\ [][NextFalhas]_vars

\* the step is an iteration of the monitor that popped a sample
FalhasPopped == Len(received'["falhas"]) = Len(received["falhas"]) + 1

\* the sample that iteration popped
FalhasSample == received'["falhas"][Len(received'["falhas"])]

(***************************************************************************)
(* C19: an iteration of the fault monitor that pops a sample publishes     *)
(* one event on .../eventos and one on /mina/gerente/falhas when the       *)
(* temperature is above 95 or a fault flag is set, and nothing otherwise;  *)
(* both carry defect_temp = 1 exactly for a temperature above 120 and      *)
(* alert_temp = 1 exactly above 95, with the sample's temperature, flags   *)
(* and timestamp.  A sample at 130 sets e_alerta_temperatura and           *)
(* e_defeito and its event has defect_temp = 1.                            *)
(***************************************************************************)
C19_EventPerFaultySample ==
    [][/\ FalhasPopped =>
            LET sd == FalhasSample
                nt == Len(events.truck)
                nf == Len(events.fleet)
            IN IF sd.i_temperatura > 95 \/ sd.i_falha_eletrica \/ sd.i_falha_hidraulica
               THEN /\ Len(events'.truck) = nt + 1 /\ Len(events'.fleet) = nf + 1
                    /\ SubSeq(events'.truck, 1, nt) = events.truck
                    /\ SubSeq(events'.fleet, 1, nf) = events.fleet
                    /\ \A e \in {events'.truck[nt + 1], events'.fleet[nf + 1]} :
                          /\ e.temp = sd.i_temperatura
                          /\ e.ts = sd.timestamp_ms
                          /\ (e.defect_temp = 1) = (sd.i_temperatura > 120)
                          /\ (e.alert_temp = 1) = (sd.i_temperatura > 95)
                          /\ e.defect_temp \in {0, 1} /\ e.alert_temp \in {0, 1}
                          /\ (e.falha_ele = 1) = sd.i_falha_eletrica
                          /\ (e.falha_hid = 1) = sd.i_falha_hidraulica
                    /\ sd.i_temperatura = 130 =>
                          /\ ESTADO'.e_alerta_temperatura /\ ESTADO'.e_defeito
                          /\ events'.truck[nt + 1].defect_temp = 1
               ELSE events' = events
       /\ ~FalhasPopped => events' = events]_vars

\* a normal sample went by without an event, then a sample at 130 raised
\* one event per scope with defect_temp = 1 and set both status flags
C19_Witness ==
    /\ Len(received["falhas"]) = 2
    /\ received["falhas"][1].i_temperatura = 70
    /\ received["falhas"][2].i_temperatura = 130
    /\ Len(events.truck) = 1 /\ Len(events.fleet) = 1
    /\ events.truck[1].defect_temp = 1 /\ events.fleet[1].defect_temp = 1
    /\ ESTADO.e_alerta_temperatura /\ ESTADO.e_defeito

(***************************************************************************)
(* C20 as stated: after the monitor processes a sample,                    *)
(* e_alerta_temperatura is (temperature > 95); a sample at or below 95     *)
(* that follows an alert sample resets it and leaves e_defeito unchanged.  *)
(***************************************************************************)
C20_AlertResetLeavesDefeito ==
    [][FalhasPopped =>
          /\ ESTADO'.e_alerta_temperatura = (FalhasSample.i_temperatura > 95)
          /\ (FalhasSample.i_temperatura <= 95 /\ ESTADO.e_alerta_temperatura)
                => /\ ~ESTADO'.e_alerta_temperatura
                   /\ ESTADO'.e_defeito = ESTADO.e_defeito]_vars

(***************************************************************************)
(* C20 amended: after the monitor processes a sample,                      *)
(* e_alerta_temperatura is (temperature > 95); a sample at or below 95     *)
(* that follows an alert sample resets it, never clears e_defeito, and     *)
(* leaves e_defeito unchanged unless the sample carries the electrical or  *)
(* the hydraulic fault flag, which sets it.                                *)
(***************************************************************************)
C20_AlertNotLatched ==
    [][FalhasPopped =>
          /\ ESTADO'.e_alerta_temperatura = (FalhasSample.i_temperatura > 95)
          /\ (FalhasSample.i_temperatura <= 95 /\ ESTADO.e_alerta_temperatura)
                => /\ ~ESTADO'.e_alerta_temperatura
                   /\ ESTADO.e_defeito => ESTADO'.e_defeito
                   /\ (~FalhasSample.i_falha_eletrica /\ ~FalhasSample.i_falha_hidraulica)
                         => ESTADO'.e_defeito = ESTADO.e_defeito
                   /\ (FalhasSample.i_falha_eletrica \/ FalhasSample.i_falha_hidraulica)
                         => ESTADO'.e_defeito]_vars

\* a sample at 130 raised the alert and the defect; the sample at 70 that
\* followed reset the alert and the defect stayed
C20_Witness ==
    /\ Len(received["falhas"]) = 2
    /\ received["falhas"][1].i_temperatura = 130
    /\ received["falhas"][2].i_temperatura = 70
    /\ ~received["falhas"][2].i_falha_eletrica /\ ~received["falhas"][2].i_falha_hidraulica
    /\ ~ESTADO.e_alerta_temperatura
    /\ ESTADO.e_defeito


(***************************************************************************)
(* SpecDecode: LogicaDeComando_thread decoding the texts it pops from      *)
(* BUF_CMDS.  The bus delivers mode, rearm and setpoint texts on           *)
(* .../comandos; the sensor task appears by the samples it puts into      *)
(* BUF_LOGIC, the fault monitor by its store into e_defeito.               *)
(***************************************************************************)
\* texts with one mode keyword, with both, with the rearm keyword in upper
\* case, and with no keyword of the mode/rearm group
ModeTexts ==
    {TXT_automatico_on, TXT_c_man, TXT_c_man_c_automatico, TXT_REARME,
     TXT_sp_460_509}

\* void MqttClient::Callback::message_arrived(msg) on topic tp
TextArrive(tp, texts) ==
    /\ arrived < MaxCmds
    /\ \E txt \in texts :
          queues_' = [queues_ EXCEPT ![tp] = Append(@, txt)]
    /\ arrived' = arrived + 1
    /\ UNCHANGED <<ringVars, filterVars, routeVars, extVars, events, stop_flag, BUF, ESTADO, COMANDO, ATUADOR, pub, clock, pcS, sens, pcL, l_pl, pcF, pcN, nav, pcC, c_pl, navCycles, produced, received>>

InitDecode == InitSys /\ InitRingIdle /\ InitFilterIdle /\ InitRouteIdle /\ InitExtIdle

NextDecode ==
    \/ L_check \/ L_drain \/ L_cmd \/ L_fwd
    \/ TextArrive("comandos", ModeTexts)
    \/ Feed("logic", OneSample)
    \/ FaultStored

SpecDecode == InitDecode /\ [][NextDecode]_vars

\* the step in which the task pops a text from BUF_CMDS and decodes it
LDecodes == pcL = "cmd" /\ NotEmpty(BUF["cmds"]) /\ pcL' = "check"
\* the popped text in lower case
LText == ToLower(Front(BUF["cmds"]))
HasAuto(low) == Contains(low, KW_c_automatico) \/ Contains(low, KW_auto)
HasMan(low) == Contains(low, KW_c_man) \/ Contains(low, KW_man)
HasRearm(low) == Contains(low, KW_c_rearme) \/ Contains(low, KW_rearme)

(***************************************************************************)
(* C21, as stated: when the task decodes a popped text, matched in lower   *)
(* case by substring, the automatic keyword gives c_automatico and         *)
(* e_automatico = TRUE; the manual keyword gives c_man and e_automatico =  *)
(* FALSE; the rearm keyword gives c_rearme and e_defeito = FALSE; a text   *)
(* with none of them leaves e_automatico and e_defeito unchanged.          *)
(***************************************************************************)
C21_DecodeByKeyword ==
    [][LDecodes =>
         /\ HasAuto(LText) => COMANDO'.c_automatico /\ ESTADO'.e_automatico
         /\ HasMan(LText) => COMANDO'.c_man /\ ~ESTADO'.e_automatico
         /\ HasRearm(LText) => COMANDO'.c_rearme /\ ~ESTADO'.e_defeito
         /\ ~HasAuto(LText) /\ ~HasMan(LText) /\ ~HasRearm(LText)
              => /\ ESTADO'.e_automatico = ESTADO.e_automatico
                 /\ ESTADO'.e_defeito = ESTADO.e_defeito]_vars

(***************************************************************************)
(* C21, amended: the manual keyword gives e_automatico = FALSE only when   *)
(* the text does not also contain the automatic keyword; with both, both   *)
(* request flags are set and e_automatico = TRUE.  Without a mode keyword  *)
(* e_automatico is unchanged, without the rearm keyword e_defeito is.      *)
(***************************************************************************)
C21_DecodeAutoLast ==
    [][LDecodes =>
         /\ HasAuto(LText) => COMANDO'.c_automatico /\ ESTADO'.e_automatico
         /\ HasMan(LText) => COMANDO'.c_man
         /\ HasMan(LText) /\ ~HasAuto(LText) => ~ESTADO'.e_automatico
         /\ HasRearm(LText) => COMANDO'.c_rearme /\ ~ESTADO'.e_defeito
         /\ ~HasAuto(LText) /\ ~HasMan(LText)
              => ESTADO'.e_automatico = ESTADO.e_automatico
         /\ ~HasRearm(LText) => ESTADO'.e_defeito = ESTADO.e_defeito]_vars

\* a text with both mode keywords was decoded: both requests, Automatic
C21_Witness ==
    /\ pcL = "check"
    /\ COMANDO.c_man /\ COMANDO.c_automatico
    /\ ESTADO.e_automatico


(***************************************************************************)
(* SpecToggle: the two tasks that decode command texts,                    *)
(* LogicaDeComando_thread from BUF_CMDS and ColetorDeDados_thread from     *)
(* .../comandos, with toggle texts delivered by the bus.  The collector    *)
(* polls the topic only after it has popped a sample.                      *)
(***************************************************************************)
ToggleTexts ==
    {TXT_acelera_on, TXT_acelera_off, TXT_direita_1, TXT_ESQUERDA_TRUE,
     TXT_esquerda, TXT_direita_off_acelera_on, TXT_automatico_on}

InitToggle == InitSys /\ InitRingIdle /\ InitFilterIdle /\ InitRouteIdle /\ InitExtIdle

NextToggle ==
    \/ L_check \/ L_drain \/ L_cmd \/ L_fwd
    \/ C_check \/ C_pop \/ C_cmd \/ C_fwd
    \/ Feed("coletor", OneSample)
    \/ TextArrive("comandos", ToggleTexts)

SpecToggle == InitToggle /\ [][NextToggle]_vars

\* the step in which the collector takes a text from .../comandos and decodes it
CDecodes == pcC = "cmd" /\ queues_["comandos"] # <<>> /\ pcC' = "fwd"
\* that text in lower case
CText == ToLower(Head(queues_["comandos"]))

\* the toggles: command flag and the two spellings of its keyword
Toggles ==
    {<<"c_acelera", KW_c_acelera, KW_acelera>>,
     <<"c_direita", KW_c_direita, KW_direita>>,
     <<"c_esquerda", KW_c_esquerda, KW_esquerda>>}

\* what one decode of the lower-case text low does to the three flags
ToggledBy(low) ==
    \A tg \in Toggles :
        COMANDO'[tg[1]] =
            IF Contains(low, tg[2]) \/ Contains(low, tg[3])
            THEN (Contains(low, KW_on) \/ Contains(low, KW_true)
                    \/ Contains(low, KW_1))
            ELSE COMANDO[tg[1]]

(***************************************************************************)
(* C22: in either decoder, a text containing the accelerate, turn-right or *)
(* turn-left keyword sets that command flag to TRUE iff the text contains  *)
(* "on", "true" or "1" anywhere and to FALSE otherwise; a flag whose       *)
(* keyword is not in the text keeps its value.                             *)
(***************************************************************************)
C22_ToggleByToken ==
    [][/\ LDecodes => ToggledBy(LText)
       /\ CDecodes => ToggledBy(CText)]_vars

\* "direita off, acelera on" has been decoded by both tasks: the token "on"
\* of the text switched both flags on
C22_Witness ==
    /\ COMANDO.c_acelera /\ COMANDO.c_direita /\ ~COMANDO.c_esquerda
    /\ pcL = "check" /\ pcC = "check"
    /\ empty(BUF["cmds"]) /\ queues_["comandos"] = <<>>
    /\ arrived > 0


(***************************************************************************)
(* SpecInject: the sensor task with fault-injection messages arriving on   *)
(* .../sim/defeito, and the four consumers draining its samples.           *)
(***************************************************************************)
InitInject == InitSys /\ InitRingIdle /\ InitFilterIdle /\ InitRouteIdle /\ InitExtIdle

NextInject ==
    \/ S_check \/ S_pop1 \/ S_gen
    \/ S_push_nav \/ S_push_logic \/ S_push_falhas \/ S_push_coletor
    \/ L_check \/ L_drain \/ L_cmd
    \/ F_check \/ F_body
    \/ N_check \/ N_pop \/ N_rd_auto \/ N_rd_def \/ N_act
    \/ C_check \/ C_pop \/ C_cmd
    \/ MqttArrive("defeito")

SpecInject == InitInject /\ [][NextInject]_vars

\* the step in which the sensor task generates and filters a raw sample
SGenerates == pcS = "gen" /\ pcS' # "gen"

(***************************************************************************)
(* C23: once "eletrica=1" has been delivered on .../sim/defeito, and with  *)
(* no "eletrica=0" or "clear" delivered at all, every sample the sensor    *)
(* task generates afterwards carries i_falha_eletrica; and the step that   *)
(* takes the message off the topic is a step that generates such a sample. *)
(***************************************************************************)
C23_InjectionPersists ==
    [][/\ SGenerates /\ arrived > 0 => sens'.filtrado.i_falha_eletrica
       /\ queues_["defeito"] # <<>> /\ queues_'["defeito"] = Tail(queues_["defeito"])
            => SGenerates /\ sens'.filtrado.i_falha_eletrica]_vars


(***************************************************************************)
(* SpecInjectDecode: the sensor task decoding fault-injection texts.  No   *)
(* consumer runs, so the task completes one fan-out and generates the      *)
(* sample of its second cycle.                                             *)
(***************************************************************************)
InjectTexts ==
    {TXT_eletrica_1, TXT_eletrica_0, TXT_hidraulica_false, TXT_HIDRAULICA,
     TXT_all, TXT_all_clear, TXT_all_false, TXT_clear}

InitInjectDecode == InitSys /\ InitRingIdle /\ InitFilterIdle /\ InitRouteIdle /\ InitExtIdle

NextInjectDecode ==
    \/ S_check \/ S_pop1 \/ S_gen
    \/ S_push_nav \/ S_push_logic \/ S_push_falhas \/ S_push_coletor
    \/ TextArrive("defeito", InjectTexts)

SpecInjectDecode == InitInjectDecode /\ [][NextInjectDecode]_vars

\* the text the second try_pop_message of the cycle returns, in lower case
SText == ToLower(Head(queues_["defeito"]))

(***************************************************************************)
(* C24: when the sensor task applies an injection text, a flag named by    *)
(* "eletrica", "hidraulica" or "all" (both flags) is FALSE if the text     *)
(* contains "0", "clear" or "false" and TRUE otherwise, the three clear    *)
(* tokens acting alike for the three selectors.                            *)
(***************************************************************************)
C24_ClearTokensAlike ==
    [][SGenerates /\ queues_["defeito"] # <<>> =>
         LET off == Contains(SText, KW_0) \/ Contains(SText, KW_clear)
                      \/ Contains(SText, KW_false)
         IN /\ Contains(SText, KW_eletrica) \/ Contains(SText, KW_all)
                 => sens'.filtrado.i_falha_eletrica = ~off
            /\ Contains(SText, KW_hidraulica) \/ Contains(SText, KW_all)
                 => sens'.filtrado.i_falha_hidraulica = ~off]_vars


(***************************************************************************)
(* SpecRoute: one Route object, built by addWaypoint and clear, loaded     *)
(* from texts and from its file, and saved to that file.                   *)
(***************************************************************************)
MaxWaypoints == 2

\* the payload of tests/test_route.cpp; a line with text after X Y; a text
\* with an indented comment, a blank line, two malformed lines and no final
\* line terminator
TXT_route_test ==
    <<NL, "#", " ", "e", "x", "a", "m", "p", "l", "e", " ", "r", "o", "u",
      "t", "e", NL, "1", "0", " ", "2", "0", " ", "1", ".", "5", NL, "3",
      "0", " ", "4", "0", NL, "5", "0", " ", "6", "0", " ", "2", ".", "0",
      NL>>
TXT_route_tail ==
    <<"1", "0", " ", "2", "0", " ", "a", "b", "c", NL>>
TXT_route_mixed ==
    <<" ", " ", "#", " ", "c", NL, NL, "x", " ", "1", NL, "5", NL, "7", " ",
      "8">>
RouteTexts == {<<>>, TXT_route_test, TXT_route_tail, TXT_route_mixed}

\* waypoints in tenths: (1, 2, 0.5) and (3, 4, 1) of the test, and one whose
\* x needs seven significant digits
WaypointValues ==
    {[x |-> 10, y |-> 20, speed |-> 5], [x |-> 30, y |-> 40, speed |-> 10],
     [x |-> 12345670, y |-> 40, speed |-> 0]}

\* void Route::addWaypoint(wp)
addWaypoint ==
    /\ Len(route) < MaxWaypoints
    /\ \E wp \in WaypointValues : route' = Append(route, wp)
    /\ routeOp' = "addWaypoint"
    /\ UNCHANGED <<routeFile, routeRet, routeArg, savedRoute>>
    /\ UNCHANGED <<ringVars, filterVars, sysVars, extVars>>

\* void Route::clear()
RouteClear ==
    /\ route' = <<>>
    /\ routeOp' = "clear"
    /\ UNCHANGED <<routeFile, routeRet, routeArg, savedRoute>>
    /\ UNCHANGED <<ringVars, filterVars, sysVars, extVars>>

\* r.loadFromString(content)
LoadFromString ==
    /\ \E content \in RouteTexts :
         LET r == loadFromString(route, content)
         IN /\ route' = r.waypoints
            /\ routeRet' = IF r.ret THEN "true" ELSE "false"
            /\ routeArg' = content
    /\ routeOp' = "loadFromString"
    /\ UNCHANGED <<routeFile, savedRoute>>
    /\ UNCHANGED <<ringVars, filterVars, sysVars, extVars>>

\* r.saveToFile(path)
SaveToFile ==
    /\ routeFile' = [exists |-> TRUE, content |-> saveToFile(route)]
    /\ savedRoute' = [by_save |-> TRUE, waypoints |-> route]
    /\ routeRet' = "true"
    /\ routeOp' = "saveToFile"
    /\ UNCHANGED <<route, routeArg>>
    /\ UNCHANGED <<ringVars, filterVars, sysVars, extVars>>

\* r.loadFromFile(path)
LoadFromFile ==
    /\ LET r == loadFromFile(route, routeFile)
       IN /\ route' = r.waypoints
          /\ routeRet' = IF r.ret THEN "true" ELSE "false"
    /\ routeOp' = "loadFromFile"
    /\ UNCHANGED <<routeFile, routeArg, savedRoute>>
    /\ UNCHANGED <<ringVars, filterVars, sysVars, extVars>>

\* the route file written by hand
EditFile ==
    /\ \E content \in RouteTexts :
         routeFile' = [exists |-> TRUE, content |-> content]
    /\ savedRoute' = [by_save |-> FALSE, waypoints |-> <<>>]
    /\ routeOp' = "editFile"
    /\ UNCHANGED <<route, routeRet, routeArg>>
    /\ UNCHANGED <<ringVars, filterVars, sysVars, extVars>>

InitRoute == InitSys /\ InitRingIdle /\ InitFilterIdle /\ InitRouteIdle /\ InitExtIdle

NextRoute ==
    \/ addWaypoint \/ RouteClear
    \/ LoadFromString \/ LoadFromFile \/ SaveToFile
    \/ EditFile

SpecRoute == InitRoute /\ [][NextRoute]_vars

\* text from position i to the end of the line is whitespace
OnlySpaces(line, i) == SkipSpaces(line, i) = Len(line) + 1

\* the line is  X Y [SPEED] : two or three numbers separated by whitespace
WellFormed(line) ==
    \E x \in {ParseDouble(line, 1)} :
        /\ x.ok /\ x.next <= Len(line) /\ isspace(line[x.next])
        /\ \E y \in {ParseDouble(line, x.next)} :
              /\ y.ok
              /\ \/ OnlySpaces(line, y.next)
                 \/ /\ isspace(line[y.next])
                    /\ \E s \in {ParseDouble(line, y.next)} :
                          s.ok /\ OnlySpaces(line, s.next)

\* the line begins, after whitespace, with two numbers
BeginsWithXY(line) ==
    \E x \in {ParseDouble(line, 1)} : x.ok /\ ParseDouble(line, x.next).ok

\* one waypoint per well-formed line, in line order
RECURSIVE OfWellFormed(_)
OfWellFormed(ls) ==
    IF ls = <<>> THEN <<>>
    ELSE (IF WellFormed(Head(ls)) THEN ParseLine(Head(ls)) ELSE <<>>)
           \o OfWellFormed(Tail(ls))

\* one waypoint per line that begins with two numbers and is no comment
RECURSIVE OfBeginsWithXY(_)
OfBeginsWithXY(ls) ==
    IF ls = <<>> THEN <<>>
    ELSE (IF BeginsWithXY(Head(ls)) THEN ParseLine(Head(ls)) ELSE <<>>)
           \o OfBeginsWithXY(Tail(ls))

\* v rounded to six significant digits, ties to even
Round6(v) ==
    LET a == Abs(v)
        p == Pow10(Len(Digits(a)) - 6)
        q == a \div p
        r == a % p
        m == IF 2 * r > p \/ (2 * r = p /\ q % 2 = 1) THEN q + 1 ELSE q
    IN IF v < 0 THEN 0 - m * p ELSE m * p

MaxSeedCycles == 3

\* while (!stop_flag.load()), for at most max cycles
N_cycle(max) ==
    /\ pcN = "check"
    /\ IF stop_flag THEN pcN' = "done" /\ UNCHANGED navCycles
       ELSE /\ navCycles < max
            /\ navCycles' = navCycles + 1
            /\ pcN' = "pop"
    /\ UNCHANGED <<ringVars, filterVars, routeVars, extVars, events, stop_flag, BUF, queues_, ESTADO, COMANDO, ATUADOR, pub, clock, pcS, sens, pcL, l_pl, pcF, nav, pcC, c_pl, produced, received, arrived>>

\* estados.e_defeito.store(false) by the decode of a rearm command
FaultCleared ==
    /\ ESTADO.e_defeito
    /\ ESTADO' = [ESTADO EXCEPT !.e_defeito = FALSE]
    /\ UNCHANGED <<ringVars, filterVars, routeVars, extVars, events, stop_flag, BUF, queues_, COMANDO, ATUADOR, pub, clock, pcS, sens, pcL, l_pl, pcF, pcN, nav, pcC, c_pl, navCycles, produced, received, arrived>>

InitSeed == InitSys /\ InitRingIdle /\ InitFilterIdle /\ InitRouteIdle /\ InitExtIdle

NextSeed ==
    \/ N_cycle(MaxSeedCycles) \/ N_pop \/ N_rd_auto \/ N_rd_def \/ N_act
    \/ Feed("nav", NavSamples) \/ ModeStored \/ FaultStored \/ FaultCleared

SpecSeed == InitSeed /\ [][NextSeed]_vars

\* the step that runs the branch of one cycle, and the Automatic one
NActs == pcN = "act" /\ pcN' = "check"
NActsAuto == NActs /\ nav.is_auto /\ ~nav.is_def

\* integrador_v at the end of an Automatic cycle that entered the control
\* law with the value i
AfterLaw(i) ==
    IF nav.have_sd THEN IntegradorApos(i, nav'.error_v) ELSE i

(***************************************************************************)
(* C26: an Automatic cycle that follows a Manual or a faulted cycle runs   *)
(* the control law on integrador_v = 0.1 * o_aceleracao; an Automatic      *)
(* cycle that follows an Automatic cycle runs it on the integrador_v the   *)
(* previous cycle left.                                                    *)
(***************************************************************************)
C26_SeedOnEntry ==
    [][NActsAuto =>
          /\ nav.mode \in {"manual", "faulted"} =>
                nav'.integrador_v = AfterLaw(ATUADOR.o_aceleracao * SeedFactor_x10 * 100000)
          /\ nav.mode \in {"auto", "hold"} =>
                nav'.integrador_v = AfterLaw(nav.integrador_v)]_vars



(***************************************************************************)
(* SpecHalt: the sensor task, the four consumers of its samples and the    *)
(* signal handler that sets the stop flag.                                 *)
(***************************************************************************)
InitHalt == InitSys /\ InitRingIdle /\ InitFilterIdle /\ InitRouteIdle /\ InitExtIdle

NextHalt ==
    \/ S_check \/ S_pop1 \/ S_gen
    \/ S_push_nav \/ S_push_logic \/ S_push_falhas \/ S_push_coletor
    \/ L_check \/ L_drain \/ L_cmd
    \/ F_check \/ F_body
    \/ N_check \/ N_pop \/ N_rd_auto \/ N_rd_def \/ N_act
    \/ C_check \/ C_pop \/ C_cmd
    \/ SetStop

SpecHalt == InitHalt /\ [][NextHalt]_vars

\* the task that pops the samples of a channel has left its loop
ConsumerDone(ch) ==
    CASE ch = "nav" -> pcN = "done"
      [] ch = "logic" -> pcL = "done"
      [] ch = "falhas" -> pcF = "done"
      [] ch = "coletor" -> pcC = "done"

\* the sensor task is inside push_wait on a full channel nobody drains
SensorStuckOn(ch) ==
    /\ pcS = "push_" \o ch
    /\ ~NotFull(BUF[ch])
    /\ ConsumerDone(ch)

(***************************************************************************)
(* C27: once the sensor task waits in push_wait on a full sample channel   *)
(* whose consumer has left its loop, it waits there in every later state:  *)
(* the channel stays full, the task takes no step, does not read the stop  *)
(* flag again and does not end, whatever the other tasks do.               *)
(***************************************************************************)
C27_SensorStuckForever ==
    [][\A ch \in SampleChannels :
          SensorStuckOn(ch) =>
             /\ SensorStuckOn(ch)'
             /\ pcS' = pcS /\ pcS' # "done"
             /\ sens' = sens /\ produced' = produced]_vars

\* the stop flag is set, the four consumers have ended, the sensor task
\* waits on the full logic channel with one sample delivered to BUF_NAV
C27_Witness ==
    /\ stop_flag
    /\ SensorStuckOn("logic")
    /\ pcN = "done" /\ pcF = "done" /\ pcC = "done"
    /\ Len(produced) = 2



(***************************************************************************)
(* SpecManual: ControleDeNavegacao_thread with samples, mode changes and   *)
(* every toggle command the Manual branch reads.                           *)
(***************************************************************************)
\* comandos.c_acelera / c_direita / c_esquerda .store(v) by a command decode
CommandStored ==
    /\ \E f \in {"c_acelera", "c_direita", "c_esquerda"} :
         COMANDO' = [COMANDO EXCEPT ![f] = ~COMANDO[f]]
    /\ UNCHANGED <<ringVars, filterVars, routeVars, extVars, events, stop_flag, BUF, queues_, ESTADO, ATUADOR, pub, clock, pcS, sens, pcL, l_pl, pcF, pcN, nav, pcC, c_pl, navCycles, produced, received, arrived>>

InitManual == InitSys /\ InitRingIdle /\ InitFilterIdle /\ InitRouteIdle /\ InitExtIdle

NextManual ==
    \/ N_cycle(MaxSeedCycles) \/ N_pop \/ N_rd_auto \/ N_rd_def \/ N_act
    \/ Feed("nav", NavSamples) \/ ModeStored \/ CommandStored

SpecManual == InitManual /\ [][NextManual]_vars

NActsManual == NActs /\ ~nav.is_def /\ ~nav.is_auto

MaxPICycles == 22

\* estimated_speed in thousandths of px/s: at rest, and 41 px in 50 ms
PISpeeds == {0, 820000}

\* the sample of a cycle that received one
PISample ==
    [timestamp_ms |-> PeriodoMs, i_posicao_x |-> 540, i_posicao_y |-> 491,
     i_angulo_x |-> 0, i_temperatura |-> 70,
     i_falha_eletrica |-> FALSE, i_falha_hidraulica |-> FALSE]

\* pop_wait_for returning a sample, the speed estimate, the loads of the
\* two status flags
N_reads ==
    /\ pcN = "pop"
    /\ \E v \in PISpeeds :
         nav' = [nav EXCEPT !.have_sd = TRUE,
                            !.sd = PISample,
                            !.estimated_speed = v,
                            !.is_auto = ESTADO.e_automatico,
                            !.prev_auto = ESTADO.e_automatico,
                            !.is_def = ESTADO.e_defeito]
    /\ pcN' = "act"
    /\ UNCHANGED <<ringVars, filterVars, routeVars, extVars, events, stop_flag, BUF, queues_, ESTADO, COMANDO, ATUADOR, pub, clock, pcS, sens, pcL, l_pl, pcF, pcC, c_pl, navCycles, produced, received, arrived>>

\* a mode command arrives and its decode stores e_automatico
ModeCommand ==
    /\ arrived < MaxCmds
    /\ arrived' = arrived + 1
    /\ ESTADO' = [ESTADO EXCEPT !.e_automatico = ~ESTADO.e_automatico]
    /\ UNCHANGED <<ringVars, filterVars, routeVars, extVars, events, stop_flag, BUF, queues_, COMANDO, ATUADOR, pub, clock, pcS, sens, pcL, l_pl, pcF, pcN, nav, pcC, c_pl, navCycles, produced, received>>

InitPI == InitSys /\ InitRingIdle /\ InitFilterIdle /\ InitRouteIdle /\ InitExtIdle

NextPI == N_cycle(MaxPICycles) \/ N_reads \/ N_act \/ ModeCommand

SpecPI == InitPI /\ [][NextPI]_vars

C30_HoldWithoutSample ==
    [][(pcN = "act" /\ nav.is_auto /\ ~nav.is_def /\ ~nav.have_sd /\ pcN' # pcN) =>
          /\ ATUADOR' = ATUADOR
          /\ nav'.integrador_v = IF nav.controller_enabled THEN nav.integrador_v
                                 ELSE ATUADOR.o_aceleracao * 100000
          /\ nav'.controller_enabled
          /\ pub' = pub
          /\ pcN' = "check"]_vars

\* an Automatic cycle without a sample, after an Automatic cycle that had
\* one and published: outputs and integral are the ones that cycle left
C30_Witness ==
    /\ pcN = "check"
    /\ nav.mode = "hold" /\ nav.prev_mode = "auto"
    /\ ~nav.have_sd
    /\ ATUADOR.o_aceleracao # 0
    /\ nav.integrador_v # 0
    /\ pub.atuadores = {Payload(ATUADOR.o_aceleracao, ATUADOR.o_direcao, TRUE, FALSE)}



(***************************************************************************)
(* SpecFrame: the five tasks together, with a command that changes the     *)
(* mode or a fault injection, so that the navigation task runs its         *)
(* faulted, Manual and Automatic branches beside the other four.  The      *)
(* tasks are scheduled without preemption: a task that left its loop head  *)
(* runs until it is back there, has ended, or waits in push_wait.          *)
(***************************************************************************)
\* the sensor task waits in push_wait on a full channel
SensorWaits ==
    \E ch \in SampleChannels : pcS = "push_" \o ch /\ ~NotFull(BUF[ch])

\* no task other than t is in the middle of a loop iteration
Yielded(t) ==
    /\ t # "S" => (pcS \in {"check", "done"} \/ SensorWaits)
    /\ t # "L" => pcL \in {"check", "done"}
    /\ t # "F" => pcF \in {"check", "done"}
    /\ t # "N" => pcN \in {"check", "done"}
    /\ t # "C" => pcC \in {"check", "done"}

InitFrame == InitSys /\ InitRingIdle /\ InitFilterIdle /\ InitRouteIdle /\ InitExtIdle

NextFrame ==
    \/ (Yielded("S") /\ S_check)
    \/ (Yielded("S") /\ S_pop1)
    \/ (Yielded("S") /\ S_gen)
    \/ (Yielded("S") /\ S_push_nav)
    \/ (Yielded("S") /\ S_push_logic)
    \/ (Yielded("S") /\ S_push_falhas)
    \/ (Yielded("S") /\ S_push_coletor)
    \/ (Yielded("L") /\ L_check)
    \/ (Yielded("L") /\ L_drain)
    \/ (Yielded("L") /\ L_cmd)
    \/ (Yielded("L") /\ L_fwd)
    \/ (Yielded("F") /\ F_check)
    \/ (Yielded("F") /\ F_body)
    \/ (Yielded("N") /\ N_check)
    \/ (Yielded("N") /\ N_pop)
    \/ (Yielded("N") /\ N_rd_auto)
    \/ (Yielded("N") /\ N_rd_def)
    \/ (Yielded("N") /\ N_act)
    \/ (Yielded("C") /\ C_check)
    \/ (Yielded("C") /\ C_pop)
    \/ (Yielded("C") /\ C_cmd)
    \/ (Yielded("C") /\ C_fwd)
    \/ MqttArrive("comandos") \/ MqttArrive("defeito")

SpecFrame == InitFrame /\ [][NextFrame]_vars

(***************************************************************************)
(* C31: o_aceleracao and o_direcao change only in the step of              *)
(* ControleDeNavegacao_thread that runs the branch of a cycle; no step of  *)
(* the sensor task, the command logic, the fault monitor or the collector  *)
(* changes either of them.                                                 *)
(***************************************************************************)
C31_SingleWriter ==
    [][(ATUADOR' # ATUADOR) =>
          /\ pcN = "act" /\ pcN' = "check"
          /\ pcS' = pcS /\ pcL' = pcL /\ pcF' = pcF /\ pcC' = pcC]_vars



\* the navigation task has moved the throttle; the other consumers have
\* each taken a sample and the collector is in the middle of an iteration
C31_Witness ==
    /\ ATUADOR.o_aceleracao # 0
    /\ Len(produced) > 0
    /\ received["logic"] # <<>> /\ received["falhas"] # <<>>
    /\ received["coletor"] # <<>>
    /\ pcC = "cmd"



(***************************************************************************)
(* SpecLog: the collector logging samples of every fault combination while *)
(* the fault monitor, fed with its own samples, sets and resets            *)
(* e_alerta_temperatura.                                                   *)
(***************************************************************************)
\* samples <<x, y, heading, temperature, electrical, hydraulic>>
LogSamples ==
    {<<500, 500, 0, 70, FALSE, FALSE>>, <<500, 500, 0, 100, FALSE, FALSE>>,
     <<500, 500, 0, 130, FALSE, FALSE>>, <<500, 500, 0, 70, TRUE, FALSE>>,
     <<500, 500, 0, 120, FALSE, TRUE>>, <<500, 500, 0, 130, TRUE, TRUE>>}
AlertSamples == {<<500, 500, 0, 70>>, <<500, 500, 0, 100>>}

InitLog == InitSys /\ InitRingIdle /\ InitFilterIdle /\ InitRouteIdle /\ InitExtIdle

NextLog ==
    \/ F_check \/ F_body
    \/ C_check \/ C_pop \/ C_cmd
    \/ Feed("falhas", AlertSamples) \/ Feed("coletor", LogSamples)

SpecLog == InitLog /\ [][NextLog]_vars

\* the step in which the collector takes a sample and logs it
CLogs == pcC = "pop" /\ NotEmpty(BUF["coletor"]) /\ pcC' = "cmd"

\* the names in a description, which the code ends with ';' each
RECURSIVE Names(_)
Names(desc) ==
    IF desc = <<>> THEN <<>>
    ELSE IF Find(desc, <<";">>, 1) = 0 THEN <<desc>>
    ELSE <<SubSeq(desc, 1, Find(desc, <<";">>, 1) - 1)>>
         \o Names(SubSeq(desc, Find(desc, <<";">>, 1) + 1, Len(desc)))

(***************************************************************************)
(* C32: the description of the line logged for a sample is ALERTA_TEMP if  *)
(* e_alerta_temperatura is true when the sample is logged, whatever the    *)
(* sample carries; otherwise it names FALHA_ELETRICA if the electrical     *)
(* flag is set, FALHA_HIDRAULICA if the hydraulic flag is set and          *)
(* DEFEITO_TEMPERATURA if the temperature is above 120, in that order, and *)
(* is OK if none of the three holds.                                       *)
(***************************************************************************)
C32_LogDescription ==
    [][CLogs =>
          \E sd \in {Front(BUF["coletor"])} :
          \E line \in pub'.logs :
             /\ pub'.logs = {line}
             /\ line.timestamp_ms = sd.timestamp_ms
             /\ Names(line.descricao) =
                   IF ESTADO.e_alerta_temperatura
                   THEN <<<<"A", "L", "E", "R", "T", "A", "_", "T", "E", "M", "P">>>>
                   ELSE IF ~sd.i_falha_eletrica /\ ~sd.i_falha_hidraulica
                           /\ ~(sd.i_temperatura > 120)
                   THEN <<<<"O", "K">>>>
                   ELSE (IF sd.i_falha_eletrica
                         THEN <<SubSeq(DESC_FALHA_ELETRICA, 1, 14)>> ELSE <<>>)
                        \o (IF sd.i_falha_hidraulica
                            THEN <<SubSeq(DESC_FALHA_HIDRAULICA, 1, 16)>> ELSE <<>>)
                        \o (IF sd.i_temperatura > 120
                            THEN <<SubSeq(DESC_DEFEITO_TEMPERATURA, 1, 19)>> ELSE <<>>)]_vars

\* a sample with both fault flags and a defect temperature was logged as
\* ALERTA_TEMP, the alert having been set by a sample of the monitor
C32_Witness ==
    /\ pcC = "cmd"
    /\ ESTADO.e_alerta_temperatura
    /\ received["coletor"] # <<>>
    /\ \E sd \in {received["coletor"][Len(received["coletor"])]} :
          /\ sd.i_falha_eletrica /\ sd.i_falha_hidraulica /\ sd.i_temperatura > 120
          /\ pub.logs = {Tabela3(sd, ESTADO)}
    /\ \E line \in pub.logs : line.descricao = DESC_ALERTA_TEMP



(***************************************************************************)
(* SpecHeading: the sensor task producing samples, the simulated heading   *)
(* and the noise added to it drawn from sets (tenths of a degree).         *)
(***************************************************************************)
\* heading after fmod(heading, 360) and the += 360 of a negative one
SimHeadings == {0, 1800, 3594, 3595, 3599}
\* noise_ang(rng): normal with mean 0 and deviation 1.2, unbounded
SimNoise == {-3700, -12, 0, 4, 12}

SimAngles == {angv(h, n) : h \in SimHeadings, n \in SimNoise}

S_sim == S_genWith(SimAngles)

InitHeading == InitSys /\ InitRingIdle /\ InitFilterIdle /\ InitRouteIdle /\ InitExtIdle

NextHeading ==
    \/ S_check \/ S_pop1 \/ S_sim
    \/ S_push_nav \/ S_push_logic \/ S_push_falhas \/ S_push_coletor

SpecHeading == InitHeading /\ [][NextHeading]_vars

(***************************************************************************)
(* C33: every sample the sensor task has produced carries a heading        *)
(* i_angulo_x in 0..359.                                                   *)
(***************************************************************************)
C33_HeadingInRange ==
    \A i \in 1..Len(produced) : produced[i].i_angulo_x \in 0..359



\* ---------------------------------------------------------------------------
\* SpecMqtt: two tasks poll the inbound topics while messages arrive
\* ---------------------------------------------------------------------------
InitMqtt ==
    InitSys /\ InitRingIdle /\ InitFilterIdle /\ InitRouteIdle /\ InitExtIdle

NextMqtt ==
    \/ \E t \in MqttThreads : M_lock(t)
    \/ \E t \in MqttThreads : M_unlock(t)
    \/ \E t \in MqttCallers : \E tp \in PolledTopics : M_call(t, tp)
    \/ \E t \in MqttCallers : M_find(t)
    \/ \E t \in MqttCallers : M_pop(t)
    \/ \E tp \in ArrivingTopics : M_arrive(tp)
    \/ M_push

SpecMqtt == InitMqtt /\ [][NextMqtt]_vars

PayloadsOf(tp, log) ==
    LET of_tp == SelectSeq(log, LAMBDA e : e.topic = tp /\ e.m # 0)
    IN  [i \in 1..Len(of_tp) |-> of_tp[i].m]

\* the message a poll has taken out of the queue and not yet returned
InHand(tp) ==
    LET ts == {t \in MqttCallers : /\ mpc[t] = "unlock"
                                   /\ mloc[t].topic = tp
                                   /\ mloc[t].m # 0}
    IN  IF ts = {} THEN <<>> ELSE <<mloc[CHOOSE t \in ts : TRUE].m>>

Queued(tp) == IF tp \in DOMAIN mqtt_queues THEN mqtt_queues[tp] ELSE <<>>

\* the message the callback has received and not yet queued
NotYetQueued(tp) ==
    IF mpc["callback"] \in {"lock", "push"} /\ mloc["callback"].topic = tp
       THEN <<mloc["callback"].m>> ELSE <<>>

\* C34: try_pop_message never waits for anything but the mutex, whose holder
\* is always inside a straight-line section; a poll that is about to return
\* nothing found its topic unseen or empty; and for every topic the messages
\* returned so far, in the order they were returned, then the one in hand, the
\* queued ones and the one being queued, are exactly the messages that
\* arrived on that topic, in arrival order: none is returned twice, none is
\* lost and none comes from another topic.
C34_TryPopMessage ==
    /\ \A t \in MqttThreads :
          q_mtx_ = t => mpc[t] \in {"find", "pop", "push", "unlock"}
    /\ \A t \in MqttCallers :
          mpc[t] = "unlock" /\ mloc[t].m = 0 => Queued(mloc[t].topic) = <<>>
    /\ \A tp \in PolledTopics :
          PayloadsOf(tp, mlog.returned) \o InHand(tp) \o Queued(tp)
                \o NotYetQueued(tp)
             = PayloadsOf(tp, mlog.arrived)

\* both tasks were handed a message of the same topic, out of two that
\* arrived on it, and a poll of a topic never seen returned nothing
C34_Witness ==
    /\ \E i, j \in 1..Len(mlog.returned) :
          /\ i < j
          /\ mlog.returned[i] = [by |-> "logic", topic |-> "comandos", m |-> 1]
          /\ mlog.returned[j] = [by |-> "coletor", topic |-> "comandos", m |-> 2]
    /\ \E k \in 1..Len(mlog.returned) :
          mlog.returned[k].topic = "posicao" /\ mlog.returned[k].m = 0
    /\ "posicao" \notin DOMAIN mqtt_queues



\* ---------------------------------------------------------------------------
\* SpecRing: every method of BufferCircular, called by four threads
\* ---------------------------------------------------------------------------
InitRingAll == InitRing /\ InitSys /\ InitFilterIdle /\ InitRouteIdle /\ InitExtIdle

\* the pushes are capped one below the other ring specifications, which have
\* no const methods to interleave
NextRing ==
    /\ \E t \in Threads :
        \/ push_force(t)
        \/ push_wait(t)
        \/ push_wait_for(t)
        \/ try_pop(t)
        \/ try_peek(t)
        \/ pop_wait(t)
        \/ pop_wait_for(t)
        \/ clear(t)
        \/ Observe(t)
        \/ Resume(t)
        \/ Timeout(t)
        \/ SpuriousWake(t)
    /\ nextItem' <= MaxItems

SpecRing == InitRingAll /\ [][NextRing]_vars

\* the counters of the ring are consistent
RingStructure ==
    /\ ring.count_ \in 0..ring.cap_
    /\ ring.head_ \in 0..(ring.cap_ - 1)
    /\ ring.tail_ \in 0..(ring.cap_ - 1)
    /\ ring.head_ = (ring.tail_ + ring.count_) % ring.cap_

\* C35: after any interleaving of push_force, push_wait, push_wait_for,
\* try_pop, try_peek, pop_wait, pop_wait_for and clear the counters of the
\* ring are consistent (0 <= count_ <= cap_, head_ and tail_ below cap_,
\* head_ = (tail_ + count_) mod cap_), and a call of try_peek, size, capacity
\* or empty leaves the ring as it was.
C35_RingInvariant ==
    /\ []RingStructure
    /\ [][lastRead' # lastRead => ring' = ring]_vars

\* a full ring whose cursors have wrapped after a clear, just peeked at
C35_Witness ==
    /\ phase = "mixed"
    /\ ring.cap_ > 1 /\ ring.count_ = ring.cap_ /\ ring.tail_ > 0
    /\ lastRead.op = "try_peek" /\ lastRead.ret = 1
    /\ lastRead.out = Front(ring)



\* C36: a command message changes the shared flags at most once.  The request
\* flag c_rearme is stored true by the first decode of a rearm text and is
\* never stored false, so while a single message has arrived a step that
\* takes e_defeito from true to false with c_rearme already true is a second
\* application of that message, after a new defect has latched.
C36_CommandAppliedOnce ==
    [][(arrived = 1 /\ ESTADO.e_defeito /\ ~ESTADO'.e_defeito)
          => ~COMANDO.c_rearme]_vars



\* ---------------------------------------------------------------------------
\* SpecCmds: the two ingress paths of the command topic, with a command-text
\* channel of any capacity up to MaxCmdsCap
\* ---------------------------------------------------------------------------
MaxCmdsCap == 2

InitCmds ==
    /\ \E n \in 1..MaxCmdsCap : InitSysCap(n)
    /\ InitRingIdle /\ InitFilterIdle /\ InitRouteIdle /\ InitExtIdle

\* the operator alternates the mode commands: automatic, manual, automatic...
ModeArrive ==
    TextArrive("comandos",
               IF arrived % 2 = 0 THEN {TXT_automatico_on} ELSE {TXT_c_man})

NextCmds ==
    \/ L_check \/ L_drain \/ L_cmd \/ L_fwd
    \/ C_check \/ C_pop \/ C_cmd \/ C_fwd
    \/ Feed("coletor", OneSample)
    \/ ModeArrive
    \/ SetStop

SpecCmds == InitCmds /\ [][NextCmds]_vars

\* every arrived command has been polled, forwarded and decoded
CommandsProcessed ==
    /\ queues_["comandos"] = <<>>
    /\ empty(BUF["cmds"])
    /\ pcL # "fwd" /\ pcC # "fwd"

\* C37: once two (or more) mode commands have arrived and both tasks have
\* finished processing them, e_automatico is what the last arrived command
\* asked for (the odd arrivals ask for automatic, the even ones for manual).
C37_ModeArrivalOrder ==
    (arrived >= 2 /\ CommandsProcessed)
        => (ESTADO.e_automatico <=> (arrived % 2 = 1))

\* C38: the command logic never waits for room in buf_cmds while it holds a
\* command it polled from the bus.
C38_NoWaitHoldingCommand ==
    ~(pcL = "fwd" /\ ~NotFull(BUF["cmds"]))



\* ---------------------------------------------------------------------------
\* main()'s shutdown and the route manager thread (main.cpp)
\* ---------------------------------------------------------------------------
\* the joins of main, in program order
JoinOrder == <<"th_tratamento", "th_logic", "th_falhas", "th_nav", "th_coletor">>

\* every std::thread object main constructs
StartedThreads ==
    {JoinOrder[i] : i \in 1..Len(JoinOrder)} \cup {"th_route_mgr"}

\* the thread's function has returned
Finished(th) ==
    CASE th = "th_tratamento" -> pcS = "done"
      [] th = "th_logic" -> pcL = "done"
      [] th = "th_falhas" -> pcF = "done"
      [] th = "th_nav" -> pcN = "done"
      [] th = "th_coletor" -> pcC = "done"
      [] th = "th_route_mgr" -> pcR = "done"

\* th_route_mgr: if (route.size() == 0) return; ... publish, subscribe
R_start ==
    /\ pcR = "start"
    /\ pcR' = IF Len(route) = 0 THEN "done" ELSE "check"
    /\ UNCHANGED <<pcM, joined>>
    /\ UNCHANGED <<ringVars, filterVars, routeVars, sysVars, mqttVars>>

\* th_route_mgr: while (!stop_flag.load())
R_check ==
    /\ pcR = "check"
    /\ pcR' = IF stop_flag THEN "done" ELSE "body"
    /\ UNCHANGED <<pcM, joined>>
    /\ UNCHANGED <<ringVars, filterVars, routeVars, sysVars, mqttVars>>

\* th_route_mgr: one iteration of the loop, ending in sleep_for
R_body ==
    /\ pcR = "body"
    /\ pcR' = "check"
    /\ UNCHANGED <<pcM, joined>>
    /\ UNCHANGED <<ringVars, filterVars, routeVars, sysVars, mqttVars>>

\* main: while (!stop_flag.load()) sleep_for(300ms)
M_idle ==
    /\ pcM = "loop"
    /\ stop_flag
    /\ pcM' = "join"
    /\ UNCHANGED <<pcR, joined>>
    /\ UNCHANGED <<ringVars, filterVars, routeVars, sysVars, mqttVars>>

\* main: if (th.joinable()) th.join(), for the next thread of the list
M_join ==
    /\ pcM = "join"
    /\ Finished(JoinOrder[Len(joined) + 1])
    /\ joined' = Append(joined, JoinOrder[Len(joined) + 1])
    /\ pcM' = IF Len(joined) + 1 = Len(JoinOrder) THEN "disconnect" ELSE "join"
    /\ UNCHANGED pcR
    /\ UNCHANGED <<ringVars, filterVars, routeVars, sysVars, mqttVars>>

\* main: mqtt.disconnect()
M_disconnect ==
    /\ pcM = "disconnect"
    /\ pcM' = "return"
    /\ UNCHANGED <<pcR, joined>>
    /\ UNCHANGED <<ringVars, filterVars, routeVars, sysVars, mqttVars>>

\* main: return 0.  The std::thread objects are destroyed; the destructor of
\* one that is still joinable calls std::terminate().
M_return ==
    /\ pcM = "return"
    /\ pcM' = IF \A th \in StartedThreads :
                    \E i \in 1..Len(joined) : joined[i] = th
              THEN "returned" ELSE "terminate"
    /\ UNCHANGED <<pcR, joined>>
    /\ UNCHANGED <<ringVars, filterVars, routeVars, sysVars, mqttVars>>

\* ---------------------------------------------------------------------------
\* SpecShutdown: the five tasks, the route manager and main, with and
\* without a route loaded, and the operator's Ctrl+C
\* ---------------------------------------------------------------------------
InitShutdown ==
    /\ InitSys /\ InitRingIdle /\ InitFilterIdle /\ InitExtIdle
    /\ route \in {<<>>, <<[x |-> 10, y |-> 20, speed |-> 5]>>}
    /\ routeFile = [exists |-> FALSE, content |-> <<>>]
    /\ routeRet = "none"
    /\ routeOp = "new"
    /\ routeArg = <<>>
    /\ savedRoute = [by_save |-> FALSE, waypoints |-> <<>>]

NextShutdown ==
    \/ (Yielded("S") /\ S_check)
    \/ (Yielded("S") /\ S_pop1)
    \/ (Yielded("S") /\ S_gen)
    \/ (Yielded("S") /\ S_push_nav)
    \/ (Yielded("S") /\ S_push_logic)
    \/ (Yielded("S") /\ S_push_falhas)
    \/ (Yielded("S") /\ S_push_coletor)
    \/ (Yielded("L") /\ L_check)
    \/ (Yielded("L") /\ L_drain)
    \/ (Yielded("L") /\ L_cmd)
    \/ (Yielded("L") /\ L_fwd)
    \/ (Yielded("F") /\ F_check)
    \/ (Yielded("F") /\ F_body)
    \/ (Yielded("N") /\ N_check)
    \/ (Yielded("N") /\ N_pop)
    \/ (Yielded("N") /\ N_rd_auto)
    \/ (Yielded("N") /\ N_rd_def)
    \/ (Yielded("N") /\ N_act)
    \/ (Yielded("C") /\ C_check)
    \/ (Yielded("C") /\ C_pop)
    \/ (Yielded("C") /\ C_cmd)
    \/ (Yielded("C") /\ C_fwd)
    \/ MqttArrive("comandos")
    \/ SetStop
    \/ R_start \/ R_check \/ R_body
    \/ M_idle \/ M_join \/ M_disconnect \/ M_return

SpecShutdown == InitShutdown /\ [][NextShutdown]_vars

\* C39: when main has returned, every thread it started has finished and has
\* been joined, and the process ended by the return and not by
\* std::terminate().
C39_GracefulShutdown ==
    pcM \in {"returned", "terminate"} =>
        /\ pcM = "returned"
        /\ \A th \in StartedThreads :
              Finished(th) /\ \E i \in 1..Len(joined) : joined[i] = th



\* ---------------------------------------------------------------------------
\* SpecCut: the navigation task cycling without end in Manual mode while the
\* operator toggles the accelerate command, the fault monitor latches a
\* defect and a rearm clears it.  The task's waits are all timed, so a
\* scheduler that keeps running it lets each of its steps happen.
\* ---------------------------------------------------------------------------
\* while (!stop_flag.load()), with no count of the cycles
N_loop ==
    /\ pcN = "check"
    /\ pcN' = IF stop_flag THEN "done" ELSE "pop"
    /\ UNCHANGED <<ringVars, filterVars, routeVars, extVars, events, stop_flag, BUF, queues_, ESTADO, COMANDO, ATUADOR, pub, clock, pcS, sens, pcL, l_pl, pcF, nav, pcC, c_pl, navCycles, produced, received, arrived>>

\* the operator's accelerate command, on or off
AccelerateStored ==
    /\ CommandStored
    /\ COMANDO'.c_direita = COMANDO.c_direita
    /\ COMANDO'.c_esquerda = COMANDO.c_esquerda

NavStep == N_loop \/ N_pop \/ N_rd_auto \/ N_rd_def \/ N_act

InitCut == InitSys /\ InitRingIdle /\ InitFilterIdle /\ InitRouteIdle /\ InitExtIdle

NextCut ==
    \/ N_loop \/ N_pop \/ N_rd_auto \/ N_rd_def \/ N_act
    \/ AccelerateStored \/ FaultStored \/ FaultCleared

SpecCut == InitCut /\ [][NextCut]_vars /\ WF_vars(NavStep)

\* C40: if from some point on e_defeito stays true, then from some point on
\* o_aceleracao stays 0, whatever a cycle that had read e_defeito = false
\* wrote after the latch.
C40_ThrottleCut ==
    <>[](ESTADO.e_defeito) => <>[](ATUADOR.o_aceleracao = 0)

\* the defect is latched while a cycle that read e_defeito = false, with the
\* accelerate command on, is about to store its throttle
C40_Witness ==
    /\ ESTADO.e_defeito
    /\ pcN = "act" /\ ~nav.is_def /\ ~nav.is_auto
    /\ COMANDO.c_acelera
    /\ ATUADOR.o_aceleracao > 0

=============================================================================
